---- MODULE Spec2Model ----
(***************************************************************************)
(* Model of the tax-intake server: the in-memory store (clients, staff     *)
(* directory, intake sessions, appointments), the complexity scoring and   *)
(* routing engine and the intake script engine.                            *)
(*                                                                         *)
(* Conventions.                                                            *)
(*  - A staff member is identified by its position 1..5 in the directory   *)
(*    (the Map's insertion order tp-001..tp-005); 0 stands for null.       *)
(*  - A rating is kept in tenths (4.8 is 48).  A routing score is kept     *)
(*    multiplied by ScoreScale, so that every term of the JavaScript       *)
(*    expression is an integer: scores are compared as exact rationals.    *)
(*  - A free-text answer is the set of keywords it contains.               *)
(*  - Timestamps, generated ids and display strings are left out: no       *)
(*    modelled branch reads them.                                          *)
(***************************************************************************)
EXTENDS Integers, Sequences, FiniteSets, TLC

----------------------------------------------------------------------------
(* Bounds of the model *)

\* most dependents of a probed client (the cap of 20 is reached at 4)
MaxDependents == 10
\* most income tags (and most deduction tags) of a probed client, besides the
\* client that carries every tag
MaxProbeTags == 1
\* client ids that startIntakeSession may create
MaxClients == 1
\* intake sessions that may be created
MaxSessions == 1
\* most responses recorded in one session (a full intake takes 19 to 23)
MaxResponses == 24
\* most routeClientToTaxPro calls that commit an assignment
MaxAssignments == 1
\* clients present when routing calls are explored on their own
MaxRoutedClients == 2
\* most staff members of a drawn directory
MaxRoster == 2
\* daily capacity of the members of a drawn directory
RosterCapacity == 1

\* clients and sessions in a run of starting and resuming
MaxResumeClients == 2

MaxResumeSessions == 2

\* checklist generations in a run of checklist calls
MaxGenerations == 3

\* documents marked collected in a run of checklist calls
MaxMarks == 2

\* the position, in generation order, of the last id that a caller passes to
\* markDocumentCollected
MaxMarkedPosition == 3

\* appointments created in a run of appointment calls
MaxAppointments == 2

\* route requests received in one run
MaxRequests == 3

\* checklists generated in a run of appointment calls
MaxChecklists == 1

\* reminders stored before a further reminder call is made
MaxReminders == 1

----------------------------------------------------------------------------
(* Enumerations (types/client.ts) *)

ComplexityOrder == <<"simple", "moderate", "complex", "expert">>

ComplexityLevels == {"simple", "moderate", "complex", "expert"}

FilingStatuses ==
  {"single", "married_filing_jointly", "married_filing_separately",
   "head_of_household", "qualifying_widow"}

AllIncomeTypes ==
  <<"wages_w2", "self_employment_1099nec", "freelance_1099misc", "gig_economy",
    "rental_income", "investment_income", "dividends", "capital_gains",
    "retirement_distributions", "social_security", "unemployment",
    "alimony_received", "gambling_winnings", "crypto_income", "foreign_income",
    "other">>

AllDeductionTypes ==
  <<"mortgage_interest", "property_taxes", "state_local_taxes",
    "charitable_donations", "medical_expenses", "student_loan_interest",
    "educator_expenses", "home_office", "business_expenses",
    "hsa_contributions", "ira_contributions", "401k_contributions",
    "childcare_expenses", "alimony_paid", "moving_expenses", "none">>

Specializations ==
  {"individual", "self_employment", "small_business", "investments",
   "real_estate", "crypto", "foreign_income", "estate_planning",
   "audit_representation"}

\* a tag that is in none of the weight tables
UnknownTag == "unrecognized_tag"

Range(s) == {s[i] : i \in 1..Len(s)}

Includes(s, x) == \E i \in 1..Len(s) : s[i] = x

Min(a, b) == IF a < b THEN a ELSE b

Max(a, b) == IF a > b THEN a ELSE b

----------------------------------------------------------------------------
(* Complexity scoring *)

FilingStatusWeights ==
  [single |-> 0, married_filing_jointly |-> 5, married_filing_separately |-> 15,
   head_of_household |-> 10, qualifying_widow |-> 10]

IncomeTypeWeights ==
  [wages_w2 |-> 0, self_employment_1099nec |-> 20, freelance_1099misc |-> 15,
   gig_economy |-> 15, rental_income |-> 25, investment_income |-> 10,
   dividends |-> 5, capital_gains |-> 15, retirement_distributions |-> 5,
   social_security |-> 5, unemployment |-> 5, alimony_received |-> 10,
   gambling_winnings |-> 10, crypto_income |-> 30, foreign_income |-> 35,
   other |-> 10]

DeductionWeights ==
  ("401k_contributions" :> 0) @@
  [mortgage_interest |-> 5, property_taxes |-> 5, state_local_taxes |-> 5,
   charitable_donations |-> 5, medical_expenses |-> 10,
   student_loan_interest |-> 0, educator_expenses |-> 0, home_office |-> 15,
   business_expenses |-> 20, hsa_contributions |-> 5, ira_contributions |-> 5,
   childcare_expenses |-> 5, alimony_paid |-> 10, moving_expenses |-> 10,
   none |-> 0]

SpecialSituationWeights ==
  [crypto |-> 25, foreignAccounts |-> 30, rentalProperty |-> 20,
   businessIncome |-> 20]

DependentsBase == 5

DependentsMax == 20

ScoreCap == 100

COMPLEXITY_THRESHOLDS ==
  [simple |-> [min |-> 0, max |-> 20], moderate |-> [min |-> 21, max |-> 50],
   complex |-> [min |-> 51, max |-> 80], expert |-> [min |-> 81, max |-> 200]]

\* table[key] || 0
Weight(table, key) == IF key \in DOMAIN table THEN table[key] ELSE 0

\* tags.forEach((t) => { score += table[t] || 0; })
RECURSIVE SumWeights(_, _)
SumWeights(table, tags) ==
  IF tags = <<>> THEN 0
  ELSE Weight(table, Head(tags)) + SumWeights(table, Tail(tags))

\* a dependents term without its cap
DependentScoreUncapped(client) == client.dependents * DependentsBase

DependentScore(client) ==
  Min(client.dependents * DependentsBase, DependentsMax)

SpecialSituationScore(client) ==
    (IF client.hasCrypto THEN SpecialSituationWeights.crypto ELSE 0)
  + (IF client.hasForeignAccounts THEN SpecialSituationWeights.foreignAccounts ELSE 0)
  + (IF client.hasRentalProperty THEN SpecialSituationWeights.rentalProperty ELSE 0)
  + (IF client.hasBusinessIncome THEN SpecialSituationWeights.businessIncome ELSE 0)

\* the sum of the weights without the final cap
ScoreWithoutCap(client) ==
    Weight(FilingStatusWeights, client.filingStatus)
  + SumWeights(IncomeTypeWeights, client.incomeTypes)
  + SumWeights(DeductionWeights, client.deductions)
  + SpecialSituationScore(client)
  + DependentScore(client)

calculateComplexityScore(client) ==
  Min(  Weight(FilingStatusWeights, client.filingStatus)
      + SumWeights(IncomeTypeWeights, client.incomeTypes)
      + SumWeights(DeductionWeights, client.deductions)
      + SpecialSituationScore(client)
      + DependentScore(client),
      ScoreCap)

\* tier bounds read as exclusive upper bounds
LevelStrictBounds(score) ==
  IF score < COMPLEXITY_THRESHOLDS.simple.max THEN "simple"
  ELSE IF score < COMPLEXITY_THRESHOLDS.moderate.max THEN "moderate"
  ELSE IF score < COMPLEXITY_THRESHOLDS.complex.max THEN "complex"
  ELSE "expert"

getComplexityLevel(score) ==
  IF score <= COMPLEXITY_THRESHOLDS.simple.max THEN "simple"
  ELSE IF score <= COMPLEXITY_THRESHOLDS.moderate.max THEN "moderate"
  ELSE IF score <= COMPLEXITY_THRESHOLDS.complex.max THEN "complex"
  ELSE "expert"

\* required specializations read from the income tags alone, the crypto,
\* foreign-accounts and rental flags ignored
RequiredSpecsIgnoringFlags(client) ==
  LET selfEmp == \/ client.hasBusinessIncome
                 \/ Includes(client.incomeTypes, "self_employment_1099nec")
                 \/ Includes(client.incomeTypes, "freelance_1099misc")
                 \/ Includes(client.incomeTypes, "gig_economy")
      invest  == \/ Includes(client.incomeTypes, "investment_income")
                 \/ Includes(client.incomeTypes, "dividends")
                 \/ Includes(client.incomeTypes, "capital_gains")
  IN    <<"individual">>
     \o (IF selfEmp THEN <<"self_employment">> ELSE <<>>)
     \o (IF selfEmp /\ client.hasBusinessIncome THEN <<"small_business">> ELSE <<>>)
     \o (IF invest THEN <<"investments">> ELSE <<>>)
     \o (IF Includes(client.incomeTypes, "rental_income") THEN <<"real_estate">> ELSE <<>>)
     \o (IF Includes(client.incomeTypes, "crypto_income") THEN <<"crypto">> ELSE <<>>)
     \o (IF Includes(client.incomeTypes, "foreign_income") THEN <<"foreign_income">> ELSE <<>>)

\* the Set of required specializations, in insertion order
getRequiredSpecializations(client) ==
  LET selfEmp == \/ client.hasBusinessIncome
                 \/ Includes(client.incomeTypes, "self_employment_1099nec")
                 \/ Includes(client.incomeTypes, "freelance_1099misc")
                 \/ Includes(client.incomeTypes, "gig_economy")
      invest  == \/ Includes(client.incomeTypes, "investment_income")
                 \/ Includes(client.incomeTypes, "dividends")
                 \/ Includes(client.incomeTypes, "capital_gains")
      estate  == client.hasRentalProperty \/ Includes(client.incomeTypes, "rental_income")
      crypto  == client.hasCrypto \/ Includes(client.incomeTypes, "crypto_income")
      foreign == client.hasForeignAccounts \/ Includes(client.incomeTypes, "foreign_income")
  IN    <<"individual">>
     \o (IF selfEmp THEN <<"self_employment">> ELSE <<>>)
     \o (IF selfEmp /\ client.hasBusinessIncome THEN <<"small_business">> ELSE <<>>)
     \o (IF invest THEN <<"investments">> ELSE <<>>)
     \o (IF estate THEN <<"real_estate">> ELSE <<>>)
     \o (IF crypto THEN <<"crypto">> ELSE <<>>)
     \o (IF foreign THEN <<"foreign_income">> ELSE <<>>)

----------------------------------------------------------------------------
(* Staff directory (database/index.ts) *)

\* every score term times ScoreScale is an integer: ScoreScale is a multiple
\* of each maxDailyAppointments, of each possible number of required
\* specializations (1..7) and of 10 (ratings are in tenths)
ScoreScale == 8 * 3 * 5 * 7

SeedTaxPros ==
  << [specializations |-> {"individual", "self_employment"},
      maxComplexity |-> "moderate", currentLoad |-> 3,
      maxDailyAppointments |-> 8, available |-> TRUE, rating |-> 48],
     [specializations |-> {"investments", "crypto", "foreign_income"},
      maxComplexity |-> "expert", currentLoad |-> 5,
      maxDailyAppointments |-> 6, available |-> TRUE, rating |-> 49],
     [specializations |-> {"small_business", "self_employment", "real_estate"},
      maxComplexity |-> "complex", currentLoad |-> 4,
      maxDailyAppointments |-> 7, available |-> TRUE, rating |-> 47],
     [specializations |-> {"individual"},
      maxComplexity |-> "simple", currentLoad |-> 6,
      maxDailyAppointments |-> 12, available |-> TRUE, rating |-> 45],
     [specializations |-> {"estate_planning", "foreign_income", "audit_representation"},
      maxComplexity |-> "expert", currentLoad |-> 2,
      maxDailyAppointments |-> 4, available |-> TRUE, rating |-> 50] >>

\* proComplexityOrder.indexOf(level)
ComplexityIndex(level) ==
  CHOOSE i \in 1..Len(ComplexityOrder) : ComplexityOrder[i] = level

\* db.getAvailableTaxPros(): the directory positions that pass the filter,
\* in iteration order
RECURSIVE FilterAvailable(_, _)
FilterAvailable(pros, i) ==
  IF i > Len(pros) THEN <<>>
  ELSE (IF pros[i].available /\ pros[i].currentLoad < pros[i].maxDailyAppointments
        THEN <<i>> ELSE <<>>) \o FilterAvailable(pros, i + 1)

\* a filter that forgets the load test: every available member passes
RECURSIVE FilterFlagOnly(_, _)
FilterFlagOnly(pros, i) ==
  IF i > Len(pros) THEN <<>>
  ELSE (IF pros[i].available THEN <<i>> ELSE <<>>) \o FilterFlagOnly(pros, i + 1)

AvailableIgnoringLoad(pros) == FilterFlagOnly(pros, 1)

\* a filter that forgets the availability flag: every member with a free
\* slot passes
RECURSIVE FilterLoadOnly(_, _)
FilterLoadOnly(pros, i) ==
  IF i > Len(pros) THEN <<>>
  ELSE (IF pros[i].currentLoad < pros[i].maxDailyAppointments THEN <<i>> ELSE <<>>)
       \o FilterLoadOnly(pros, i + 1)

AvailableIgnoringFlag(pros) == FilterLoadOnly(pros, 1)

getAvailableTaxPros(pros) == FilterAvailable(pros, 1)

\* requiredSpecs.filter((spec) => pro.specializations.includes(spec)).length
RECURSIVE MatchingSpecs(_, _)
MatchingSpecs(requiredSpecs, pro) ==
  IF requiredSpecs = <<>> THEN 0
  ELSE (IF Head(requiredSpecs) \in pro.specializations THEN 1 ELSE 0)
       + MatchingSpecs(Tail(requiredSpecs), pro)

\* a penalty small enough for the other terms to outweigh
LightPenalty(pro, complexityLevel) ==
  IF ComplexityIndex(pro.maxComplexity) < ComplexityIndex(complexityLevel)
  THEN -10 ELSE 20

\* the -100 penalty or the +20 bonus of one candidate
ComplexityTerm(pro, complexityLevel) ==
  IF ComplexityIndex(pro.maxComplexity) < ComplexityIndex(complexityLevel)
  THEN -100 ELSE 20

\* the score of one candidate, times ScoreScale
ScoreTaxPro(pro, complexityLevel, requiredSpecs) ==
    ComplexityTerm(pro, complexityLevel) * ScoreScale
  + (MatchingSpecs(requiredSpecs, pro) * 50 * ScoreScale) \div Len(requiredSpecs)
  + ((pro.maxDailyAppointments - pro.currentLoad) * 20 * ScoreScale)
      \div pro.maxDailyAppointments
  + (pro.rating * 2 * ScoreScale) \div 10

\* an insertion that puts a candidate before those of equal score
RECURSIVE InsertBeforeEqual(_, _)
InsertBeforeEqual(sorted, x) ==
  IF sorted = <<>> THEN <<x>>
  ELSE IF Head(sorted).score > x.score
       THEN <<Head(sorted)>> \o InsertBeforeEqual(Tail(sorted), x)
       ELSE <<x>> \o sorted

\* insert one scored candidate into a list sorted by score descending, after
\* every element that does not score lower (the sort is stable)
RECURSIVE InsertByScore(_, _)
InsertByScore(sorted, x) ==
  IF sorted = <<>> THEN <<x>>
  ELSE IF Head(sorted).score >= x.score
       THEN <<Head(sorted)>> \o InsertByScore(Tail(sorted), x)
       ELSE <<x>> \o sorted

\* scoredPros.sort((a, b) => b.score - a.score)
RECURSIVE SortByScore(_)
SortByScore(scored) ==
  IF scored = <<>> THEN <<>>
  ELSE InsertByScore(SortByScore(SubSeq(scored, 1, Len(scored) - 1)),
                     scored[Len(scored)])

\* scoredPros.slice(1, 3).map((s) => s.pro)
SliceAlternates(ranked) ==
  [i \in 1..Min(Len(ranked) - 1, 2) |-> ranked[i + 1].pro]

\* the score threshold below which the best candidate is refused
BestRefused(best) == best.score < 0

\* findBestTaxPro without its store write: the selection made for a client
\* against a directory.  taxPro = 0 is null; ranked is scoredPros after the
\* sort and requiredSpecs the list narrated in the reason.
findBestTaxPro(client, pros) ==
  LET complexityScore == calculateComplexityScore(client)
      complexityLevel == getComplexityLevel(complexityScore)
      requiredSpecs   == getRequiredSpecializations(client)
      availablePros   == getAvailableTaxPros(pros)
      scoredPros      == [i \in 1..Len(availablePros) |->
                            [pro   |-> availablePros[i],
                             score |-> ScoreTaxPro(pros[availablePros[i]],
                                                   complexityLevel, requiredSpecs)]]
      Outcome(ranked) ==
        IF ranked = <<>>
        THEN [taxPro |-> 0, reason |-> "no_staff_available", alternates |-> <<>>,
              complexityScore |-> complexityScore,
              requiredSpecs |-> requiredSpecs, ranked |-> <<>>]
        ELSE IF BestRefused(ranked[1])
        THEN [taxPro |-> 0, reason |-> "cannot_handle_case", alternates |-> <<>>,
              complexityScore |-> complexityScore,
              requiredSpecs |-> requiredSpecs, ranked |-> ranked]
        ELSE [taxPro |-> ranked[1].pro, reason |-> "matched",
              alternates |-> SliceAlternates(ranked),
              complexityScore |-> complexityScore,
              requiredSpecs |-> requiredSpecs, ranked |-> ranked]
  IN Outcome(SortByScore(scoredPros))

----------------------------------------------------------------------------
(* Intake script engine *)

INTAKE_STEPS ==
  <<"personal_info", "filing_status", "dependents", "employment",
    "income_types", "deductions", "special_situations", "document_upload",
    "review", "complete">>

\* a script with a sixth deductions question
QuestionCountLongDeductions ==
  [personal_info |-> 5, filing_status |-> 1, dependents |-> 2, employment |-> 3,
   income_types |-> 1, deductions |-> 6, special_situations |-> 4,
   document_upload |-> 1, review |-> 1, complete |-> 0]

\* INTAKE_QUESTIONS[step].length
QuestionCount ==
  [personal_info |-> 5, filing_status |-> 1, dependents |-> 2, employment |-> 3,
   income_types |-> 1, deductions |-> 5, special_situations |-> 4,
   document_upload |-> 1, review |-> 1, complete |-> 0]

\* INTAKE_STEPS.indexOf(step), counted from 1
StepIndex(step) == CHOOSE i \in 1..Len(INTAKE_STEPS) : INTAKE_STEPS[i] = step

\* lowerAnswer.includes(keyword)
Has(answer, keyword) == keyword \in answer

\* the spread without the Set: every added tag is appended
AppendAll(list, added) == list \o added

\* [...new Set([...list, ...added])]: the list followed by the added tags it
\* does not hold yet
RECURSIVE AppendNew(_, _)
AppendNew(list, added) ==
  IF added = <<>> THEN list
  ELSE AppendNew(IF Includes(list, Head(added)) THEN list
                 ELSE Append(list, Head(added)), Tail(added))

createNewClient ==
  [filingStatus |-> "single", dependents |-> 0, incomeTypes |-> <<>>,
   deductions |-> <<>>, hasCrypto |-> FALSE, hasForeignAccounts |-> FALSE,
   hasRentalProperty |-> FALSE, hasBusinessIncome |-> FALSE,
   hasHealthInsurance |-> FALSE, intakeCompleted |-> FALSE,
   documentsCollected |-> <<>>, documentsPending |-> <<>>,
   complexityScore |-> 0, assignedTaxPro |-> 0, appointmentId |-> 0]

\* the special_situations exit on either word instead of both
isStepCompleteEitherWord(step, answer) ==
  \/ step = "dependents" /\ (Has(answer, "no") \/ Has(answer, "none"))
  \/ step = "special_situations" /\ (Has(answer, "no") \/ Has(answer, "none"))

isStepComplete(step, answer) ==
  \/ step = "dependents" /\ (Has(answer, "no") \/ Has(answer, "none"))
  \/ step = "special_situations" /\ Has(answer, "no") /\ Has(answer, "none")

\* the chain with its last test dropped: an answer that matches nothing is
\* read as qualifying widow
FilingStatusLastBranchOpen(client, answer) ==
  IF Has(answer, "single") THEN "single"
  ELSE IF Has(answer, "jointly") THEN "married_filing_jointly"
  ELSE IF Has(answer, "separately") THEN "married_filing_separately"
  ELSE IF Has(answer, "head") THEN "head_of_household"
  ELSE "qualifying_widow"

FilingStatusFromAnswer(client, answer) ==
  IF Has(answer, "single") THEN "single"
  ELSE IF Has(answer, "jointly") THEN "married_filing_jointly"
  ELSE IF Has(answer, "separately") THEN "married_filing_separately"
  ELSE IF Has(answer, "head") THEN "head_of_household"
  ELSE IF Has(answer, "widow") THEN "qualifying_widow"
  ELSE client.filingStatus

IncomeTypesFromAnswer(answer) ==
     (IF Has(answer, "w2") \/ Has(answer, "w-2") THEN <<"wages_w2">> ELSE <<>>)
  \o (IF Has(answer, "1099") \/ Has(answer, "freelance") \/ Has(answer, "contractor")
      THEN <<"self_employment_1099nec">> ELSE <<>>)
  \o (IF Has(answer, "uber") \/ Has(answer, "lyft") \/ Has(answer, "doordash")
         \/ Has(answer, "gig")
      THEN <<"gig_economy">> ELSE <<>>)
  \o (IF Has(answer, "rental") \/ Has(answer, "property")
      THEN <<"rental_income">> ELSE <<>>)
  \o (IF Has(answer, "invest") \/ Has(answer, "stock") \/ Has(answer, "dividend")
      THEN <<"investment_income", "dividends">> ELSE <<>>)
  \o (IF Has(answer, "crypto") \/ Has(answer, "bitcoin")
      THEN <<"crypto_income">> ELSE <<>>)
  \o (IF Has(answer, "retirement") \/ Has(answer, "pension") \/ Has(answer, "401k")
      THEN <<"retirement_distributions">> ELSE <<>>)
  \o (IF Has(answer, "social security") THEN <<"social_security">> ELSE <<>>)

DeductionsFromAnswer(answer) ==
     (IF Has(answer, "mortgage") THEN <<"mortgage_interest">> ELSE <<>>)
  \o (IF Has(answer, "property tax") THEN <<"property_taxes">> ELSE <<>>)
  \o (IF Has(answer, "charit") \/ Has(answer, "donat")
      THEN <<"charitable_donations">> ELSE <<>>)
  \o (IF Has(answer, "student loan") THEN <<"student_loan_interest">> ELSE <<>>)
  \o (IF Has(answer, "401k") \/ Has(answer, "ira") \/ Has(answer, "retirement")
      THEN <<"401k_contributions", "ira_contributions">> ELSE <<>>)
  \o (IF Has(answer, "home office") THEN <<"home_office">> ELSE <<>>)
  \o (IF Has(answer, "business expense") THEN <<"business_expenses">> ELSE <<>>)
  \o (IF Has(answer, "childcare") \/ Has(answer, "daycare")
      THEN <<"childcare_expenses">> ELSE <<>>)

updateClientFromResponse(client, step, answer) ==
  CASE step = "filing_status" ->
         [client EXCEPT !.filingStatus = FilingStatusFromAnswer(client, answer)]
    [] step = "income_types" ->
         [client EXCEPT
            !.incomeTypes = AppendNew(@, IncomeTypesFromAnswer(answer)),
            !.hasRentalProperty = @ \/ Has(answer, "rental") \/ Has(answer, "property"),
            !.hasCrypto = @ \/ Has(answer, "crypto") \/ Has(answer, "bitcoin")]
    [] step = "deductions" ->
         [client EXCEPT
            !.deductions = AppendNew(@, DeductionsFromAnswer(answer)),
            !.hasBusinessIncome = @ \/ Has(answer, "business expense")]
    [] step = "special_situations" ->
         [client EXCEPT
            !.hasCrypto = @ \/ Has(answer, "crypto") \/ Has(answer, "bitcoin"),
            !.hasForeignAccounts = @ \/ Has(answer, "foreign"),
            !.hasRentalProperty = @ \/ Has(answer, "rental") \/ Has(answer, "real estate"),
            !.incomeTypes =
               AppendNew(@,
                    (IF Has(answer, "crypto") \/ Has(answer, "bitcoin")
                     THEN <<"crypto_income">> ELSE <<>>)
                 \o (IF Has(answer, "foreign") THEN <<"foreign_income">> ELSE <<>>))]
    [] step = "employment" ->
         IF Has(answer, "self-employ") \/ Has(answer, "freelance")
            \/ Has(answer, "own business")
         THEN [client EXCEPT
                 !.hasBusinessIncome = TRUE,
                 !.incomeTypes = AppendNew(@, <<"self_employment_1099nec">>)]
         ELSE client
    [] OTHER -> client

\* session.responses.filter((r) => r.step === step).length
RECURSIVE CountStep(_, _)
CountStep(responses, step) ==
  IF responses = <<>> THEN 0
  ELSE (IF Head(responses) = step THEN 1 ELSE 0) + CountStep(Tail(responses), step)

\* percentComplete of getIntakeProgress: Math.round of the share of completed
\* steps, in percent
percentComplete(session) ==
  (2 * 100 * Len(session.completedSteps) + Len(INTAKE_STEPS))
     \div (2 * Len(INTAKE_STEPS))

----------------------------------------------------------------------------
(* Document checklist engine *)

\* DOCUMENT_TEMPLATES: template key -> name, category, required
DOCUMENT_TEMPLATES ==
  (
  "id_primary" :> [name |-> "Government-issued Photo ID", category |-> "identity", required |-> TRUE]
  @@ "id_ssn_card" :> [name |-> "Social Security Card", category |-> "identity", required |-> TRUE]
  @@ "id_prior_return" :> [name |-> "Prior Year Tax Return", category |-> "identity", required |-> FALSE]
  @@ "income_w2" :> [name |-> "W-2 Forms", category |-> "income", required |-> TRUE]
  @@ "income_1099nec" :> [name |-> "1099-NEC Forms", category |-> "income", required |-> TRUE]
  @@ "income_1099misc" :> [name |-> "1099-MISC Forms", category |-> "income", required |-> TRUE]
  @@ "income_1099k" :> [name |-> "1099-K Forms", category |-> "income", required |-> TRUE]
  @@ "income_1099div" :> [name |-> "1099-DIV Forms", category |-> "investments", required |-> TRUE]
  @@ "income_1099int" :> [name |-> "1099-INT Forms", category |-> "investments", required |-> TRUE]
  @@ "income_1099b" :> [name |-> "1099-B Forms", category |-> "investments", required |-> TRUE]
  @@ "income_1099r" :> [name |-> "1099-R Forms", category |-> "income", required |-> TRUE]
  @@ "income_ssa1099" :> [name |-> "SSA-1099", category |-> "income", required |-> TRUE]
  @@ "income_1099g" :> [name |-> "1099-G Forms", category |-> "income", required |-> TRUE]
  @@ "income_crypto" :> [name |-> "Cryptocurrency Transaction Records", category |-> "investments", required |-> TRUE]
  @@ "income_crypto_1099" :> [name |-> "Crypto 1099 Forms", category |-> "investments", required |-> FALSE]
  @@ "income_rental" :> [name |-> "Rental Income Records", category |-> "property", required |-> TRUE]
  @@ "expense_rental" :> [name |-> "Rental Expense Records", category |-> "property", required |-> TRUE]
  @@ "doc_1098_rental" :> [name |-> "1098 Mortgage Interest (Rental)", category |-> "property", required |-> TRUE]
  @@ "income_foreign" :> [name |-> "Foreign Income Documentation", category |-> "income", required |-> TRUE]
  @@ "doc_fbar" :> [name |-> "Foreign Bank Account Records", category |-> "other", required |-> TRUE]
  @@ "income_business" :> [name |-> "Business Income Records", category |-> "business", required |-> TRUE]
  @@ "expense_business" :> [name |-> "Business Expense Records", category |-> "business", required |-> TRUE]
  @@ "doc_business_assets" :> [name |-> "Business Asset Records", category |-> "business", required |-> FALSE]
  @@ "ded_1098" :> [name |-> "1098 Mortgage Interest Statement", category |-> "property", required |-> TRUE]
  @@ "ded_property_tax" :> [name |-> "Property Tax Statements", category |-> "property", required |-> TRUE]
  @@ "ded_charity_cash" :> [name |-> "Charitable Donation Receipts", category |-> "expenses", required |-> TRUE]
  @@ "ded_charity_noncash" :> [name |-> "Non-Cash Donation Records", category |-> "expenses", required |-> FALSE]
  @@ "ded_1098e" :> [name |-> "1098-E Student Loan Interest", category |-> "education", required |-> TRUE]
  @@ "ded_1098t" :> [name |-> "1098-T Tuition Statement", category |-> "education", required |-> TRUE]
  @@ "ded_401k" :> [name |-> "401(k) Contribution Records", category |-> "other", required |-> FALSE]
  @@ "ded_ira" :> [name |-> "IRA Contribution Records", category |-> "other", required |-> TRUE]
  @@ "ded_hsa" :> [name |-> "HSA Contribution Records", category |-> "healthcare", required |-> TRUE]
  @@ "ded_1099sa" :> [name |-> "1099-SA HSA Distributions", category |-> "healthcare", required |-> TRUE]
  @@ "ded_medical" :> [name |-> "Medical Expense Records", category |-> "healthcare", required |-> FALSE]
  @@ "ded_childcare" :> [name |-> "Childcare Provider Information", category |-> "expenses", required |-> TRUE]
  @@ "hc_1095a" :> [name |-> "1095-A Health Insurance Marketplace", category |-> "healthcare", required |-> TRUE]
  @@ "hc_1095b" :> [name |-> "1095-B Health Coverage", category |-> "healthcare", required |-> FALSE]
  @@ "ded_home_office" :> [name |-> "Home Office Records", category |-> "business", required |-> TRUE]
  @@ "gig_uber" :> [name |-> "1099-NEC from Uber", category |-> "income", required |-> TRUE]
  @@ "gig_lyft" :> [name |-> "1099-NEC from Lyft", category |-> "income", required |-> TRUE]
  @@ "gig_doordash" :> [name |-> "1099-NEC from DoorDash", category |-> "income", required |-> TRUE]
  @@ "gig_mileage" :> [name |-> "Mileage Log", category |-> "business", required |-> TRUE] )

\* INCOME_TO_DOCUMENTS: income type -> template keys
INCOME_TO_DOCUMENTS ==
  (
  "wages_w2" :> <<"income_w2">>
  @@ "self_employment_1099nec" :> <<"income_1099nec", "income_1099k", "expense_business">>
  @@ "freelance_1099misc" :> <<"income_1099misc", "income_1099nec", "expense_business">>
  @@ "gig_economy" :> <<"income_1099nec", "income_1099k", "gig_mileage">>
  @@ "rental_income" :> <<"income_rental", "expense_rental", "doc_1098_rental">>
  @@ "investment_income" :> <<"income_1099b", "income_1099int">>
  @@ "dividends" :> <<"income_1099div">>
  @@ "capital_gains" :> <<"income_1099b">>
  @@ "retirement_distributions" :> <<"income_1099r">>
  @@ "social_security" :> <<"income_ssa1099">>
  @@ "unemployment" :> <<"income_1099g">>
  @@ "alimony_received" :> <<>>
  @@ "gambling_winnings" :> <<>>
  @@ "crypto_income" :> <<"income_crypto", "income_crypto_1099">>
  @@ "foreign_income" :> <<"income_foreign", "doc_fbar">>
  @@ "other" :> <<>> )

\* DEDUCTION_TO_DOCUMENTS: deduction type -> template keys
DEDUCTION_TO_DOCUMENTS ==
  (
  "mortgage_interest" :> <<"ded_1098">>
  @@ "property_taxes" :> <<"ded_property_tax">>
  @@ "state_local_taxes" :> <<>>
  @@ "charitable_donations" :> <<"ded_charity_cash", "ded_charity_noncash">>
  @@ "medical_expenses" :> <<"ded_medical">>
  @@ "student_loan_interest" :> <<"ded_1098e">>
  @@ "educator_expenses" :> <<>>
  @@ "home_office" :> <<"ded_home_office">>
  @@ "business_expenses" :> <<"expense_business", "doc_business_assets">>
  @@ "hsa_contributions" :> <<"ded_hsa", "ded_1099sa">>
  @@ "ira_contributions" :> <<"ded_ira">>
  @@ "401k_contributions" :> <<"ded_401k">>
  @@ "childcare_expenses" :> <<"ded_childcare">>
  @@ "alimony_paid" :> <<>>
  @@ "moving_expenses" :> <<>>
  @@ "none" :> <<>> )

\* the order category.localeCompare gives the nine categories
CategoryOrder ==
  <<"business", "education", "expenses", "healthcare", "identity", "income",
    "investments", "other", "property">>

CategoryIndex(category) ==
  CHOOSE i \in 1..Len(CategoryOrder) : CategoryOrder[i] = category

\* docKeys.forEach((key) => documentSet.add(key)) for every tag of a list; a
\* tag outside the table adds nothing
RECURSIVE AddMapped(_, _, _)
AddMapped(keys, tags, table) ==
  IF tags = <<>> THEN keys
  ELSE AddMapped(AppendNew(keys, IF Head(tags) \in DOMAIN table
                                 THEN table[Head(tags)] ELSE <<>>),
                 Tail(tags), table)

\* the keys that generateDocumentChecklist adds to the identity documents,
\* in insertion order
DocumentSetFrom(identity, client) ==
  LET income   == AddMapped(identity, client.incomeTypes, INCOME_TO_DOCUMENTS)
      deduct   == AddMapped(income, client.deductions, DEDUCTION_TO_DOCUMENTS)
      crypto   == IF client.hasCrypto
                  THEN AppendNew(deduct, <<"income_crypto", "income_crypto_1099">>)
                  ELSE deduct
      foreign  == IF client.hasForeignAccounts
                  THEN AppendNew(crypto, <<"income_foreign", "doc_fbar">>)
                  ELSE crypto
      rental   == IF client.hasRentalProperty
                  THEN AppendNew(foreign, <<"income_rental", "expense_rental",
                                            "doc_1098_rental">>)
                  ELSE foreign
      business == IF client.hasBusinessIncome
                  THEN AppendNew(rental, <<"income_business", "expense_business",
                                           "doc_business_assets", "ded_home_office">>)
                  ELSE rental
  IN IF client.hasHealthInsurance
     THEN AppendNew(business, <<"hc_1095a", "hc_1095b">>)
     ELSE business

\* a document set that leaves out the optional prior-year return
DocumentSetWithoutPriorReturn(client) ==
  DocumentSetFrom(<<"id_primary", "id_ssn_card">>, client)

\* documentSet of generateDocumentChecklist
DocumentSet(client) ==
  DocumentSetFrom(<<"id_primary", "id_ssn_card", "id_prior_return">>, client)

\* documentId === docKey: a generated id "doc-<ms>-<random>" is never one of
\* the template keys
DocumentIdIsKey(id, key) == FALSE

\* client.documentsCollected.includes(docKey)
CollectedIncludesKey(client, key) ==
  \E i \in 1..Len(client.documentsCollected) :
     DocumentIdIsKey(client.documentsCollected[i], key)

\* the items pushed for the keys of the document set that have a template;
\* the k-th id generated in generation g is <<g, k>>
RECURSIVE NewDocuments(_, _, _, _)
NewDocuments(client, keys, generation, k) ==
  IF k > Len(keys) THEN <<>>
  ELSE (IF keys[k] \in DOMAIN DOCUMENT_TEMPLATES
        THEN << [id |-> <<generation, k>>,
                 name |-> DOCUMENT_TEMPLATES[keys[k]].name,
                 category |-> DOCUMENT_TEMPLATES[keys[k]].category,
                 required |-> DOCUMENT_TEMPLATES[keys[k]].required,
                 collected |-> CollectedIncludesKey(client, keys[k]),
                 reminderSent |-> FALSE] >>
        ELSE <<>>)
       \o NewDocuments(client, keys, generation, k + 1)

\* the comparator of documents.sort: required first, then by category
DocumentBefore(a, b) ==
  IF a.required # b.required THEN a.required
  ELSE CategoryIndex(a.category) < CategoryIndex(b.category)

\* stable insertion: behind every item that does not come after it
RECURSIVE InsertDocument(_, _)
InsertDocument(sorted, d) ==
  IF sorted = <<>> THEN <<d>>
  ELSE IF DocumentBefore(d, Head(sorted)) THEN <<d>> \o sorted
  ELSE <<Head(sorted)>> \o InsertDocument(Tail(sorted), d)

RECURSIVE SortDocuments(_)
SortDocuments(documents) ==
  IF documents = <<>> THEN <<>>
  ELSE InsertDocument(SortDocuments(SubSeq(documents, 1, Len(documents) - 1)),
                      documents[Len(documents)])

\* documents.filter((d) => !d.collected && d.required)
RECURSIVE PendingOf(_)
PendingOf(documents) ==
  IF documents = <<>> THEN <<>>
  ELSE (IF ~Head(documents).collected /\ Head(documents).required
        THEN <<Head(documents)>> ELSE <<>>) \o PendingOf(Tail(documents))

\* .map((d) => d.id)
IdsOf(documents) == [i \in 1..Len(documents) |-> documents[i].id]

\* a filter that removes nothing
KeepAll(list, removed) == list

\* list.filter((id) => id !== removed)
RECURSIVE Without(_, _)
Without(list, removed) ==
  IF list = <<>> THEN <<>>
  ELSE (IF Head(list) = removed THEN <<>> ELSE <<Head(list)>>)
       \o Without(Tail(list), removed)

\* a lookup by position alone: the id of an earlier generation finds the
\* document that took its place
FindDocumentOfAnyGeneration(documents, documentId) ==
  LET found == {i \in 1..Len(documents) : documents[i].id[2] = documentId[2]}
  IN IF found = {} THEN 0 ELSE CHOOSE i \in found : \A j \in found : i <= j

\* checklist.documents.findIndex((d) => d.id === documentId), 0 for -1
FindDocument(documents, documentId) ==
  LET found == {i \in 1..Len(documents) : documents[i].id = documentId}
  IN IF found = {} THEN 0 ELSE CHOOSE i \in found : \A j \in found : i <= j

----------------------------------------------------------------------------
(* The store and the operations on it *)

VARIABLES
  clients,       \* Database.clients: client id -> ClientProfile
  taxPros,       \* Database.taxPros: the staff directory, in insertion order
  sessions,      \* Database.sessions: session id -> IntakeSession
  checklists,    \* Database.checklists: client id -> DocumentChecklist
  appointments,  \* Database.appointments
  reminders,     \* Database.reminders
  last,          \* the call made last and what it returned
  requests       \* route requests received by an adapter and not yet answered

vars == <<clients, taxPros, sessions, checklists, appointments, reminders, last,
          requests>>

ClientIds == 1..MaxClients

\* no id given (startIntakeSession), or an id that resolves to nothing
NoId == 0

SessionIds == 1..MaxSessions

\* the answers a client may give: each is the set of keywords the text
\* contains ("none" contains "no", "property tax" contains "property")
Answers ==
  { {},                                        \* "John Smith"
    {"jointly"},                               \* "Married filing jointly"
    {"no", "none"},                            \* "No, none"
    {"freelance"},                             \* "Yes, I also do freelance consulting"
    {"stock", "crypto", "invest"},             \* "I have some stocks and crypto investments"
    {"foreign", "rental", "property", "business expense"} }
                                               \* "foreign rental property, business expenses"

\* db.updateClient(id, updates) for an existing id
updateClient(store, id, updates) ==
  IF id \in DOMAIN store
  THEN [store EXCEPT ![id] = updates @@ store[id]]
  ELSE store

\* a load update that stores the change instead of adding it
StoreLoadChange(pros, id, change) ==
  IF id \in DOMAIN pros
  THEN [pros EXCEPT ![id].currentLoad = Max(0, change)]
  ELSE pros

\* db.updateTaxProLoad(id, change)
updateTaxProLoad(pros, id, change) ==
  IF id \in DOMAIN pros
  THEN [pros EXCEPT ![id].currentLoad = Max(0, @ + change)]
  ELSE pros

\* db.getSessionByClient(clientId): the first in-progress session of the
\* client in insertion order, 0 if none
getSessionByClient(store, clientId) ==
  LET open == {s \in DOMAIN store : store[s].clientId = clientId
                                    /\ store[s].status = "in_progress"}
  IN IF open = {} THEN 0 ELSE CHOOSE s \in open : \A t \in open : s <= t

Idle == [op |-> "none"]

BlankStore ==
  /\ clients = <<>>
  /\ sessions = <<>>
  /\ checklists = <<>>
  /\ appointments = <<>>
  /\ reminders = <<>>
  /\ last = Idle
  /\ requests = <<>>

Init ==
  /\ BlankStore
  /\ taxPros = SeedTaxPros

\* the number of assignments committed so far
Assigned == 
  LET RECURSIVE Sum(_)
      Sum(i) == IF i = 0 THEN 0
                ELSE (taxPros[i].currentLoad - SeedTaxPros[i].currentLoad) + Sum(i - 1)
  IN Sum(Len(taxPros))

\* a run holds at most maxSessions sessions: a call that would create one
\* more is not made
CanStart(clientId, maxSessions) ==
  \/ Len(sessions) < maxSessions
  \/ clientId # NoId /\ getSessionByClient(sessions, clientId) # 0

\* a start that never looks for a session to resume
StartWithoutResume(store, clientId) == 0

\* the session that startIntakeSession resumes, 0 if it creates one
ExistingSession(store, clientId) == getSessionByClient(store, clientId)

\* startIntakeSession(clientId); without an id a fresh one is generated
startIntakeSession(clientId) ==
  /\ clientId = NoId => \E c \in ClientIds : c \notin DOMAIN clients
  /\ LET id == IF clientId = NoId
               THEN CHOOSE c \in ClientIds :
                      c \notin DOMAIN clients
                      /\ \A d \in ClientIds : d \notin DOMAIN clients => c <= d
               ELSE clientId
         clients2 == IF id \in DOMAIN clients THEN clients
                     ELSE clients @@ (id :> createNewClient)
         existing == ExistingSession(sessions, id)
         sid == Len(sessions) + 1
     IN /\ clients' = clients2
        /\ IF existing # 0
           THEN /\ sessions' = sessions
                /\ last' = [op |-> "startIntakeSession", clientId |-> id,
                            sessionId |-> existing, created |-> FALSE]
           ELSE /\ sessions' = Append(sessions,
                     [clientId |-> id, currentStep |-> "personal_info",
                      completedSteps |-> <<>>, responses |-> <<>>,
                      status |-> "in_progress"])
                /\ last' = [op |-> "startIntakeSession", clientId |-> id,
                            sessionId |-> sid, created |-> TRUE]
  /\ UNCHANGED <<taxPros, checklists, appointments, reminders>>

\* the body of processIntakeResponse once the session and its client are
\* found: the session and the client record it leaves, and what it reports
RespondTo(session, client, answer) ==
  LET step      == session.currentStep
      responses == Append(session.responses, step)
      updated   == updateClientFromResponse(client, step, answer)
      advance   == \/ CountStep(responses, step) >= QuestionCount[step]
                   \/ isStepComplete(step, answer)
      moves     == advance /\ StepIndex(step) < Len(INTAKE_STEPS)
      next      == IF moves THEN INTAKE_STEPS[StepIndex(step) + 1] ELSE step
      completes == moves /\ next = "complete"
  IN [session |-> [session EXCEPT
                     !.responses = responses,
                     !.completedSteps = IF advance THEN Append(@, step) ELSE @,
                     !.currentStep = next,
                     !.status = IF completes THEN "completed" ELSE @],
      client |-> IF completes THEN [updated EXCEPT !.intakeCompleted = TRUE]
                 ELSE updated,
      stepCompleted |-> moves,
      intakeCompleted |-> completes]

processIntakeResponse(sessionId, answer) ==
  IF sessionId \notin DOMAIN sessions
  THEN /\ last' = [op |-> "processIntakeResponse", sessionId |-> sessionId,
                   success |-> FALSE, message |-> "Session not found"]
       /\ UNCHANGED <<clients, taxPros, sessions, checklists, appointments,
                      reminders>>
  ELSE
    \E session \in {sessions[sessionId]} :
    \E done \in {RespondTo(session, clients[session.clientId], answer)} :
       /\ Len(session.responses) < MaxResponses
       /\ sessions' = [sessions EXCEPT ![sessionId] = done.session]
       /\ clients' = [clients EXCEPT ![session.clientId] = done.client]
       /\ last' = [op |-> "processIntakeResponse", sessionId |-> sessionId,
                   answer |-> answer, success |-> TRUE,
                   stepCompleted |-> done.stepCompleted,
                   intakeCompleted |-> done.intakeCompleted]
       /\ UNCHANGED <<taxPros, checklists, appointments, reminders>>

\* findBestTaxPro(client) called on the stored client (as the test script
\* does): the selection, and the score written onto the client record
FindBestTaxPro(clientId) ==
  /\ clientId \in DOMAIN clients
  /\ \E result \in {findBestTaxPro(clients[clientId], taxPros)} :
        /\ clients' = updateClient(clients, clientId,
                                   [complexityScore |-> result.complexityScore])
        /\ last' = [op |-> "findBestTaxPro", clientId |-> clientId,
                    found |-> TRUE, result |-> result]
  /\ UNCHANGED <<taxPros, sessions, checklists, appointments, reminders>>

\* a recommendation that commits the assignment it recommends
RecommendAndAssign(clientId) ==
  /\ IF clientId \notin DOMAIN clients
     THEN /\ last' = [op |-> "getTaxProRecommendations", clientId |-> clientId,
                      found |-> FALSE]
          /\ UNCHANGED <<clients, taxPros>>
     ELSE \E result \in {findBestTaxPro(clients[clientId], taxPros)} :
             /\ clients' = updateClient(clients, clientId,
                              [complexityScore |-> result.complexityScore,
                               assignedTaxPro |-> result.taxPro])
             /\ taxPros' = updateTaxProLoad(taxPros, result.taxPro, 1)
             /\ last' = [op |-> "getTaxProRecommendations", clientId |-> clientId,
                         found |-> TRUE, result |-> result]
  /\ UNCHANGED <<sessions, checklists, appointments, reminders>>

getTaxProRecommendations(clientId) ==
  /\ IF clientId \notin DOMAIN clients
     THEN /\ last' = [op |-> "getTaxProRecommendations", clientId |-> clientId,
                      found |-> FALSE]
          /\ clients' = clients
     ELSE \E result \in {findBestTaxPro(clients[clientId], taxPros)} :
             /\ clients' = updateClient(clients, clientId,
                                        [complexityScore |-> result.complexityScore])
             /\ last' = [op |-> "getTaxProRecommendations", clientId |-> clientId,
                         found |-> TRUE, result |-> result]
  /\ UNCHANGED <<taxPros, sessions, checklists, appointments, reminders>>

routeClientToTaxPro(clientId) ==
  /\ IF clientId \notin DOMAIN clients
     THEN /\ last' = [op |-> "routeClientToTaxPro", clientId |-> clientId,
                      found |-> FALSE, success |-> FALSE]
          /\ UNCHANGED <<clients, taxPros>>
     ELSE \E result \in {findBestTaxPro(clients[clientId], taxPros)} :
          \E scored \in {updateClient(clients, clientId,
                                      [complexityScore |-> result.complexityScore])} :
             IF result.taxPro = 0
             THEN /\ clients' = scored
                  /\ taxPros' = taxPros
                  /\ last' = [op |-> "routeClientToTaxPro", clientId |-> clientId,
                              found |-> TRUE, success |-> FALSE, result |-> result]
             ELSE /\ clients' = updateClient(scored, clientId,
                                             [assignedTaxPro |-> result.taxPro])
                  /\ taxPros' = updateTaxProLoad(taxPros, result.taxPro, 1)
                  /\ last' = [op |-> "routeClientToTaxPro", clientId |-> clientId,
                              found |-> TRUE, success |-> TRUE, result |-> result]
  /\ UNCHANGED <<sessions, checklists, appointments, reminders>>

\* the generation of the ids that generateDocumentId hands out next: ids are
\* never reused, and the newest generation is always that of a stored
\* checklist
FreshGeneration ==
  LET used == {checklists[c].generatedAt : c \in DOMAIN checklists}
  IN IF used = {} THEN 1 ELSE 1 + CHOOSE g \in used : \A h \in used : h <= g

\* generateDocumentChecklist(clientId); it throws for an unknown client
generateDocumentChecklist(clientId) ==
  IF clientId \notin DOMAIN clients
  THEN /\ last' = [op |-> "generateDocumentChecklist", clientId |-> clientId,
                   found |-> FALSE]
       /\ UNCHANGED <<clients, taxPros, sessions, checklists, appointments,
                      reminders>>
  ELSE
    \E documents \in {SortDocuments(NewDocuments(clients[clientId],
                         DocumentSet(clients[clientId]), FreshGeneration, 1))} :
       /\ clients' = updateClient(clients, clientId,
                        [documentsPending |-> IdsOf(PendingOf(documents))])
       /\ checklists' = (clientId :> [documents |-> documents,
                                      generatedAt |-> FreshGeneration])
                        @@ checklists
       /\ last' = [op |-> "generateDocumentChecklist", clientId |-> clientId,
                   found |-> TRUE, generation |-> FreshGeneration]
       /\ UNCHANGED <<taxPros, sessions, appointments, reminders>>

\* getPendingDocuments(clientId)
getPendingDocuments(clientId) ==
  IF clientId \in DOMAIN checklists
  THEN PendingOf(checklists[clientId].documents)
  ELSE <<>>

\* markDocumentCollected(clientId, documentId)
markDocumentCollected(clientId, documentId) ==
  IF clientId \notin DOMAIN checklists
  THEN /\ last' = [op |-> "markDocumentCollected", clientId |-> clientId,
                   documentId |-> documentId, success |-> FALSE,
                   message |-> "Checklist not found"]
       /\ UNCHANGED <<clients, taxPros, sessions, checklists, appointments,
                      reminders>>
  ELSE
    \E index \in {FindDocument(checklists[clientId].documents, documentId)} :
      IF index = 0
      THEN /\ last' = [op |-> "markDocumentCollected", clientId |-> clientId,
                       documentId |-> documentId, success |-> FALSE,
                       message |-> "Document not found in checklist"]
           /\ UNCHANGED <<clients, taxPros, sessions, checklists, appointments,
                          reminders>>
      ELSE /\ checklists' =
                [checklists EXCEPT ![clientId].documents[index].collected = TRUE]
           /\ clients' =
                IF clientId \in DOMAIN clients
                THEN updateClient(clients, clientId,
                       [documentsCollected |->
                           AppendNew(clients[clientId].documentsCollected,
                                     <<documentId>>),
                        documentsPending |->
                           Without(clients[clientId].documentsPending, documentId)])
                ELSE clients
           /\ last' = [op |-> "markDocumentCollected", clientId |-> clientId,
                       documentId |-> documentId, success |-> TRUE,
                       message |-> "Marked as collected"]
           /\ UNCHANGED <<taxPros, sessions, appointments, reminders>>

\* a duration table that gives the standard time to a completed intake too
StandardDuration(level, intakeCompleted) ==
  CASE level = "simple" -> 30
    [] level = "moderate" -> 45
    [] level = "complex" -> 60
    [] level = "expert" -> 90

\* the two switch statements of createAppointment, in minutes
AppointmentDuration(level, intakeCompleted) ==
  IF intakeCompleted
  THEN CASE level = "simple" -> 15
         [] level = "moderate" -> 20
         [] level = "complex" -> 30
         [] level = "expert" -> 45
  ELSE CASE level = "simple" -> 30
         [] level = "moderate" -> 45
         [] level = "complex" -> 60
         [] level = "expert" -> 90

\* the appointment object that createAppointment builds for a stored client;
\* scheduledAt is in hours from the time of the call
NewAppointment(client, clientId, taxProId, scheduledAt) ==
  LET complexityLevel == getComplexityLevel(client.complexityScore)
  IN [clientId |-> clientId, taxProId |-> taxProId, scheduledAt |-> scheduledAt,
      duration |-> AppointmentDuration(complexityLevel, client.intakeCompleted),
      status |-> "scheduled",
      intakeScore |-> IF client.intakeCompleted THEN 100 ELSE 0,
      estimatedComplexity |-> complexityLevel]

\* createAppointmentReminder(clientId, appointmentId, reminderType, scheduledFor)
NewAppointmentReminder(clientId, appointmentId, reminderType, scheduledFor) ==
  [clientId |-> clientId, appointmentId |-> appointmentId, type |-> reminderType,
   scheduledFor |-> scheduledFor, sent |-> FALSE, documentIds |-> <<>>]

\* createBatchDocumentReminder(clientId, appointmentId): the reminders it
\* stores, none for an unknown client or without pending documents
createBatchDocumentReminder(clientId, appointmentId) ==
  IF clientId \notin DOMAIN clients \/ getPendingDocuments(clientId) = <<>>
  THEN <<>>
  ELSE << [clientId |-> clientId, appointmentId |-> appointmentId,
           type |-> "document_reminder", scheduledFor |-> 48, sent |-> FALSE,
           documentIds |-> IdsOf(getPendingDocuments(clientId))] >>

\* scheduleAppointmentReminders(appointment): the reminders it stores
scheduleAppointmentReminders(appointment, appointmentId) ==
     (IF appointment.scheduledAt - 24 > 0
      THEN <<NewAppointmentReminder(appointment.clientId, appointmentId,
                "appointment_reminder_24h", appointment.scheduledAt - 24)>>
      ELSE <<>>)
  \o (IF appointment.scheduledAt - 1 > 0
      THEN <<NewAppointmentReminder(appointment.clientId, appointmentId,
                "appointment_reminder_1h", appointment.scheduledAt - 1)>>
      ELSE <<>>)
  \o createBatchDocumentReminder(appointment.clientId, appointmentId)

\* a store keyed by client: the client's earlier appointments take the values
\* of the new one
StoreAppointmentByClient(store, appointment) ==
  Append([a \in DOMAIN store |->
            IF store[a].clientId = appointment.clientId
            THEN appointment ELSE store[a]],
         appointment)

\* Database.createAppointment: this.appointments.set(appointment.id, appointment)
StoreAppointment(store, appointment) == Append(store, appointment)

\* createAppointment(clientId, taxProId, scheduledAt), as POST /appointments
\* calls it; it throws for an unknown client
createAppointment(clientId, taxProId, scheduledAt) ==
  IF clientId \notin DOMAIN clients
  THEN /\ last' = [op |-> "createAppointment", clientId |-> clientId,
                   found |-> FALSE]
       /\ UNCHANGED <<clients, taxPros, sessions, checklists, appointments,
                      reminders>>
  ELSE /\ appointments' = StoreAppointment(appointments,
             NewAppointment(clients[clientId], clientId, taxProId, scheduledAt))
       /\ clients' = updateClient(clients, clientId,
                        [appointmentId |-> Len(appointments) + 1])
       /\ last' = [op |-> "createAppointment", clientId |-> clientId,
                   found |-> TRUE, appointmentId |-> Len(appointments) + 1]
       /\ UNCHANGED <<taxPros, sessions, checklists, reminders>>

\* the create_appointment tool: createAppointment, then
\* scheduleAppointmentReminders on the appointment created
CreateAppointmentTool(clientId, taxProId, scheduledAt) ==
  IF clientId \notin DOMAIN clients
  THEN /\ last' = [op |-> "create_appointment", clientId |-> clientId,
                   found |-> FALSE]
       /\ UNCHANGED <<clients, taxPros, sessions, checklists, appointments,
                      reminders>>
  ELSE \E appointment \in {NewAppointment(clients[clientId], clientId, taxProId,
                                          scheduledAt)} :
         /\ appointments' = StoreAppointment(appointments, appointment)
         /\ clients' = updateClient(clients, clientId,
                          [appointmentId |-> Len(appointments) + 1])
         /\ reminders' = reminders
               \o scheduleAppointmentReminders(appointment, Len(appointments) + 1)
         /\ last' = [op |-> "create_appointment", clientId |-> clientId,
                     found |-> TRUE, appointmentId |-> Len(appointments) + 1]
         /\ UNCHANGED <<taxPros, sessions, checklists>>

\* getAppointmentEstimate(clientId): the estimate it returns; it throws for an
\* unknown client and writes nothing
getAppointmentEstimate(clientId) ==
  /\ IF clientId \notin DOMAIN clients
     THEN last' = [op |-> "getAppointmentEstimate", clientId |-> clientId,
                   found |-> FALSE]
     ELSE \E client \in {clients[clientId]} :
          \E complexityLevel \in {getComplexityLevel(client.complexityScore)} :
          \E standardTime \in {AppointmentDuration(complexityLevel, FALSE)} :
          \E optimizedTime \in {AppointmentDuration(complexityLevel, TRUE)} :
            last' = [op |-> "getAppointmentEstimate", clientId |-> clientId,
                     found |-> TRUE,
                     estimatedDuration |-> IF client.intakeCompleted
                                           THEN optimizedTime ELSE standardTime,
                     savings |-> IF client.intakeCompleted
                                 THEN standardTime - optimizedTime ELSE 0,
                     complexityLevel |-> complexityLevel]
  /\ UNCHANGED <<clients, taxPros, sessions, checklists, appointments, reminders>>

\* createDocumentReminder(clientId, appointmentId, documents): one reminder
\* for each document
RECURSIVE createDocumentReminder(_, _, _)
createDocumentReminder(clientId, appointmentId, documents) ==
  IF documents = <<>> THEN <<>>
  ELSE << [clientId |-> clientId, appointmentId |-> appointmentId,
           type |-> "document_reminder", scheduledFor |-> 24, sent |-> FALSE,
           documentIds |-> <<Head(documents).id>>] >>
       \o createDocumentReminder(clientId, appointmentId, Tail(documents))

\* the create_document_reminders tool
CreateDocumentReminders(clientId, appointmentId) ==
  /\ \E pending \in {getPendingDocuments(clientId)} :
       IF pending # <<>> /\ clientId \notin DOMAIN clients
       THEN /\ reminders' = reminders
            /\ last' = [op |-> "create_document_reminders",
                        clientId |-> clientId, found |-> FALSE]
       ELSE /\ reminders' = reminders
                  \o createDocumentReminder(clientId, appointmentId, pending)
            /\ last' = [op |-> "create_document_reminders",
                        clientId |-> clientId, found |-> TRUE,
                        created |-> Len(pending)]
  /\ UNCHANGED <<clients, taxPros, sessions, checklists, appointments>>

\* a send that does not test whether the reminder was sent before
sendReminderUnchecked(reminderId) ==
  /\ IF reminderId \notin DOMAIN reminders
     THEN /\ last' = [op |-> "sendReminder", reminderId |-> reminderId,
                      success |-> FALSE, message |-> "Reminder not found"]
          /\ reminders' = reminders
     ELSE /\ last' = [op |-> "sendReminder", reminderId |-> reminderId,
                      success |-> TRUE, message |-> "Reminder sent"]
          /\ reminders' = [reminders EXCEPT ![reminderId].sent = TRUE]
  /\ UNCHANGED <<clients, taxPros, sessions, checklists, appointments>>

\* sendReminder(reminderId)
sendReminder(reminderId) ==
  /\ IF reminderId \notin DOMAIN reminders
     THEN /\ last' = [op |-> "sendReminder", reminderId |-> reminderId,
                      success |-> FALSE, message |-> "Reminder not found"]
          /\ reminders' = reminders
     ELSE IF reminders[reminderId].sent
     THEN /\ last' = [op |-> "sendReminder", reminderId |-> reminderId,
                      success |-> FALSE, message |-> "Reminder already sent"]
          /\ reminders' = reminders
     ELSE IF reminders[reminderId].clientId \notin DOMAIN clients
     THEN /\ last' = [op |-> "sendReminder", reminderId |-> reminderId,
                      success |-> FALSE, message |-> "Client not found"]
          /\ reminders' = reminders
     ELSE /\ last' = [op |-> "sendReminder", reminderId |-> reminderId,
                      success |-> TRUE, message |-> "Reminder sent"]
          /\ reminders' = [reminders EXCEPT ![reminderId].sent = TRUE]
  /\ UNCHANGED <<clients, taxPros, sessions, checklists, appointments>>

----------------------------------------------------------------------------
(* The server: intake and routing calls in any order *)

Next ==
  \/ \E c \in ClientIds \cup {NoId} :
        CanStart(c, MaxSessions) /\ startIntakeSession(c) /\ UNCHANGED requests
  \/ \E s \in SessionIds, a \in Answers : processIntakeResponse(s, a) /\ UNCHANGED requests
  \/ \E c \in ClientIds : FindBestTaxPro(c) /\ UNCHANGED requests
  \/ \E c \in ClientIds \cup {NoId} : getTaxProRecommendations(c) /\ UNCHANGED requests
  \/ \E c \in ClientIds \cup {NoId} :
        Assigned < MaxAssignments /\ routeClientToTaxPro(c) /\ UNCHANGED requests

Spec == Init /\ [][Next]_vars

----------------------------------------------------------------------------
(* Routing calls alone, on clients that intake has produced *)

\* the client record after the given answers, one <<step, answer>> pair at a
\* time, starting from a new client
RECURSIVE IntakeOutcome(_)
IntakeOutcome(script) ==
  IF script = <<>> THEN createNewClient
  ELSE updateClientFromResponse(IntakeOutcome(SubSeq(script, 1, Len(script) - 1)),
                                script[Len(script)][1], script[Len(script)][2])

RoutingProfiles ==
  { IntakeOutcome(<<>>),
    IntakeOutcome(<< <<"filing_status", {"jointly"}>>,
                     <<"employment", {"freelance"}>> >>),
    IntakeOutcome(<< <<"income_types", {"stock", "crypto", "invest"}>> >>),
    IntakeOutcome(<< <<"special_situations",
                       {"foreign", "rental", "property", "business expense"}>> >>) }

RoutedClientIds == 1..MaxRoutedClients

InitRouting ==
  /\ clients \in [RoutedClientIds -> RoutingProfiles]
  /\ taxPros = SeedTaxPros
  /\ sessions = <<>>
  /\ checklists = <<>>
  /\ appointments = <<>>
  /\ reminders = <<>>
  /\ last = Idle
  /\ requests = <<>>

NextRouting ==
  \/ \E c \in RoutedClientIds : FindBestTaxPro(c) /\ UNCHANGED requests
  \/ \E c \in RoutedClientIds \cup {NoId} : getTaxProRecommendations(c) /\ UNCHANGED requests
  \/ \E c \in RoutedClientIds \cup {NoId} : routeClientToTaxPro(c) /\ UNCHANGED requests

SpecRouting == InitRouting /\ [][NextRouting]_vars

----------------------------------------------------------------------------
(* Routing calls on any small directory and on the seeded one *)

\* a drawn staff member: its specializations are "individual" alone or every
\* tag, its capacity RosterCapacity (which divides ScoreScale)
RosterPros ==
  [specializations : {{"individual"}, Specializations},
   maxComplexity : ComplexityLevels,
   currentLoad : 0..RosterCapacity,
   maxDailyAppointments : {RosterCapacity},
   available : BOOLEAN,
   rating : {0, 50}]

\* every directory of at most MaxRoster drawn members, and the seeded one
Rosters == UNION {[1..n -> RosterPros] : n \in 1..MaxRoster} \cup {SeedTaxPros}

InitRoster ==
  /\ clients \in [{1} -> RoutingProfiles]
  /\ taxPros \in Rosters
  /\ sessions = <<>>
  /\ checklists = <<>>
  /\ appointments = <<>>
  /\ reminders = <<>>
  /\ last = Idle
  /\ requests = <<>>

SpecRoster == InitRoster /\ [][NextRouting]_vars

----------------------------------------------------------------------------
(* The scoring functions on clients with any attributes *)

\* the income (or deduction) lists of a probed client: every list of at most
\* MaxProbeTags known or unknown tags without repetition
RECURSIVE TagLists(_, _)
TagLists(tags, n) ==
  IF n = 0 THEN {<<>>}
  ELSE LET shorter == TagLists(tags, n - 1)
       IN shorter \cup {Append(l, t) : l \in shorter, t \in tags}

NoRepeat(l) == \A i, j \in 1..Len(l) : l[i] = l[j] => i = j

ProbeTagPairs ==
  LET inc == {l \in TagLists(Range(AllIncomeTypes) \cup {UnknownTag}, MaxProbeTags) :
                NoRepeat(l)}
      ded == {l \in TagLists(Range(AllDeductionTypes) \cup {UnknownTag}, MaxProbeTags) :
                NoRepeat(l)}
  IN {p \in inc \X ded : Len(p[1]) + Len(p[2]) <= MaxProbeTags}
     \cup {<<AllIncomeTypes, AllDeductionTypes>>}
     \cup {<< <<"wages_w2", "crypto_income">>, <<>> >>}

ProbeClients ==
  { [createNewClient EXCEPT
       !.filingStatus = fs, !.incomeTypes = p[1], !.deductions = p[2],
       !.hasCrypto = f[1], !.hasForeignAccounts = f[2],
       !.hasRentalProperty = f[3], !.hasBusinessIncome = f[4],
       !.dependents = n] :
    fs \in FilingStatuses \cup {UnknownTag}, p \in ProbeTagPairs,
    f \in BOOLEAN \X BOOLEAN \X BOOLEAN \X BOOLEAN, n \in 0..MaxDependents }

\* one stored client whose attributes were written directly, as the test
\* script does with db.updateClient
InitScore ==
  /\ clients \in [{1} -> ProbeClients]
  /\ taxPros = SeedTaxPros
  /\ sessions = <<>>
  /\ checklists = <<>>
  /\ appointments = <<>>
  /\ reminders = <<>>
  /\ last = Idle
  /\ requests = <<>>

\* the calculate_complexity tool
CalculateComplexity(clientId) ==
  /\ IF clientId \notin DOMAIN clients
     THEN last' = [op |-> "calculate_complexity", clientId |-> clientId,
                   found |-> FALSE]
     ELSE \E score \in {calculateComplexityScore(clients[clientId])} :
            last' = [op |-> "calculate_complexity", clientId |-> clientId,
                     found |-> TRUE, score |-> score,
                     level |-> getComplexityLevel(score)]
  /\ UNCHANGED <<clients, taxPros, sessions, checklists, appointments, reminders>>

NextScore ==
  \/ \E c \in {1, NoId} : CalculateComplexity(c) /\ UNCHANGED requests
  \/ FindBestTaxPro(1) /\ UNCHANGED requests

SpecScore == InitScore /\ [][NextScore]_vars

----------------------------------------------------------------------------
(* getComplexityLevel called on its own, on every score a record can hold *)

GetComplexityLevel(score) ==
  /\ last' = [op |-> "getComplexityLevel", score |-> score,
              level |-> getComplexityLevel(score)]
  /\ UNCHANGED <<clients, taxPros, sessions, checklists, appointments, reminders>>

NextLevel == \E score \in 0..ScoreCap : GetComplexityLevel(score) /\ UNCHANGED requests

SpecLevel == Init /\ [][NextLevel]_vars

----------------------------------------------------------------------------
(* Intake calls alone *)

\* the answers of a run of intake calls: those of the server, and "I don't
\* know", which contains "no" and not "none"
IntakeAnswers == Answers \cup { {"no"} }

NextIntake ==
  \/ \E c \in ClientIds \cup {NoId} :
        CanStart(c, MaxSessions) /\ startIntakeSession(c) /\ UNCHANGED requests
  \/ \E s \in SessionIds \cup {Len(sessions) + 1}, a \in IntakeAnswers :
        processIntakeResponse(s, a) /\ UNCHANGED requests

SpecIntake == Init /\ [][NextIntake]_vars

----------------------------------------------------------------------------
(* Starting and resuming: several clients, starting again after completing *)

ResumeClientIds == 1..MaxResumeClients

ResumeSessionIds == 1..MaxResumeSessions

\* a client who answers nothing that the heuristics read, or "No, none"
ResumeAnswers == { {}, {"no", "none"} }

NextResume ==
  \/ \E c \in ResumeClientIds \cup {NoId} :
        CanStart(c, MaxResumeSessions) /\ startIntakeSession(c) /\ UNCHANGED requests
  \/ \E s \in ResumeSessionIds, a \in ResumeAnswers :
        processIntakeResponse(s, a) /\ UNCHANGED requests

SpecResume == Init /\ [][NextResume]_vars

----------------------------------------------------------------------------
(* Appointment and reminder calls around the end of an intake *)

\* the session and the client record that startIntakeSession() and then the
\* answers of a script, one processIntakeResponse call each, leave behind
RECURSIVE AfterAnswers(_)
AfterAnswers(script) ==
  IF script = <<>>
  THEN [session |-> [clientId |-> 1, currentStep |-> "personal_info",
                     completedSteps |-> <<>>, responses |-> <<>>,
                     status |-> "in_progress"],
        client |-> createNewClient]
  ELSE LET before == AfterAnswers(SubSeq(script, 1, Len(script) - 1))
           done   == RespondTo(before.session, before.client, script[Len(script)])
       IN [session |-> done.session, client |-> done.client]

\* the answers of four clients up to the last question of the
\* special_situations step: one who reports nothing, a married freelancer, a
\* married investor in stocks and crypto, and a married freelancer with
\* stocks, crypto and a mortgage
NothingToReport ==
  << {}, {}, {}, {}, {},  {},  {"no", "none"},  {}, {}, {},  {},
     {}, {}, {}, {}, {},  {}, {}, {} >>

Freelancer ==
  << {}, {}, {}, {}, {},  {"jointly"},  {"no", "none"},  {"freelance"}, {}, {},
     {},  {}, {}, {}, {}, {},  {}, {}, {} >>

Investor ==
  << {}, {}, {}, {}, {},  {"jointly"},  {"no", "none"},  {}, {}, {},
     {"stock", "crypto", "invest"},  {}, {}, {}, {}, {},  {}, {}, {} >>

FreelancerAndInvestor ==
  << {}, {}, {}, {}, {},  {"jointly"},  {"no", "none"},  {"freelance"}, {}, {},
     {"stock", "crypto", "invest"},  {"mortgage"}, {}, {}, {}, {},  {}, {}, {} >>

\* the store that holds one client and the session of the client's answers
AfterIntake(script) ==
  /\ clients = (1 :> AfterAnswers(script).client)
  /\ sessions = <<AfterAnswers(script).session>>
  /\ taxPros = SeedTaxPros
  /\ checklists = <<>>
  /\ appointments = <<>>
  /\ reminders = <<>>
  /\ last = Idle
  /\ requests = <<>>

InitAppointments == AfterIntake(Investor)

\* the answers given from the last special_situations question on
AppointmentAnswers ==
  { {"no", "none"}, {"foreign", "rental", "property", "business expense"} }

\* hours from the call to the appointment: within the day, three days ahead
AppointmentTimes == {12, 72}

NextAppointments ==
  \/ \E a \in AppointmentAnswers : processIntakeResponse(1, a) /\ UNCHANGED requests
  \/ getTaxProRecommendations(1) /\ UNCHANGED requests
  \/ Assigned < MaxAssignments /\ routeClientToTaxPro(1) /\ UNCHANGED requests
  \/ FreshGeneration <= MaxChecklists /\ generateDocumentChecklist(1) /\ UNCHANGED requests
  \/ \E c \in {1, NoId}, t \in AppointmentTimes :
        Len(appointments) < MaxAppointments /\ createAppointment(c, 1, t) /\ UNCHANGED requests
  \/ \E t \in AppointmentTimes :
        Len(appointments) < MaxAppointments /\ CreateAppointmentTool(1, 1, t)
                                            /\ UNCHANGED requests
  \/ Len(reminders) < MaxReminders /\ CreateDocumentReminders(1, NoId) /\ UNCHANGED requests
  \/ \E r \in {1, Len(reminders) + 1} : sendReminder(r) /\ UNCHANGED requests

SpecAppointments == InitAppointments /\ [][NextAppointments]_vars

----------------------------------------------------------------------------
(* Appointments for clients of every tier, before and after completion *)

\* the three answers that take a session from the last special_situations
\* question to complete
ThroughCompletion(script) == script \o << {}, {}, {} >>

DurationScripts ==
  LET open == {NothingToReport, Freelancer, Investor, FreelancerAndInvestor}
  IN open \cup {ThroughCompletion(script) : script \in open}

InitDuration == \E script \in DurationScripts : AfterIntake(script)

\* the staff ids a caller passes: the first member of the directory, and an id
\* that no member has
StaffIds == {1, Len(SeedTaxPros) + 1}

NextDuration ==
  \/ getTaxProRecommendations(1) /\ UNCHANGED requests
  \/ \E c \in {1, NoId} : getAppointmentEstimate(c) /\ UNCHANGED requests
  \/ \E c \in {1, NoId}, p \in StaffIds, t \in AppointmentTimes :
        Len(appointments) < MaxAppointments /\ createAppointment(c, p, t) /\ UNCHANGED requests
  \/ \E t \in AppointmentTimes :
        Len(appointments) < MaxAppointments /\ CreateAppointmentTool(1, 1, t)
                                            /\ UNCHANGED requests

SpecDuration == InitDuration /\ [][NextDuration]_vars

----------------------------------------------------------------------------
(* Checklist calls during and after an intake *)

\* the answers given in a run of checklist calls
ChecklistAnswers == { {"no", "none"}, {"stock", "crypto", "invest"} }

\* the document ids a caller passes: the first id (a required identity
\* document) and the id at MaxMarkedPosition (the optional prior-year return)
\* of every generation, stale ones included
MarkedIds == (1..MaxGenerations) \X {1, MaxMarkedPosition}

NextChecklist ==
  \/ \E c \in ClientIds \cup {NoId} :
        CanStart(c, MaxSessions) /\ startIntakeSession(c) /\ UNCHANGED requests
  \/ \E s \in SessionIds, a \in ChecklistAnswers :
        processIntakeResponse(s, a) /\ UNCHANGED requests
  \/ \E c \in ClientIds \cup {NoId} :
        FreshGeneration <= MaxGenerations /\ generateDocumentChecklist(c) /\ UNCHANGED requests
  \/ \E c \in ClientIds, d \in MarkedIds :
        /\ c \in DOMAIN clients => Len(clients[c].documentsCollected) < MaxMarks
        /\ markDocumentCollected(c, d) /\ UNCHANGED requests

SpecChecklist == Init /\ [][NextChecklist]_vars

----------------------------------------------------------------------------
(* Route requests served concurrently by the HTTP and tool adapters *)

\* an adapter receives a route request; it waits for its handler to run
ReceiveRoute(clientId) ==
  /\ Len(requests) < MaxRequests
  /\ requests' = Append(requests, [clientId |-> clientId, phase |-> "received"])
  /\ UNCHANGED <<clients, taxPros, sessions, checklists, appointments,
                 reminders, last>>

\* a handler that gives way to other handlers between the selection and the
\* writes: one turn scores the client and keeps the selection, a later turn
\* writes the assignment and the load from the selection kept
ServeRouteInTwoTurns(r) ==
  \E clientId \in {requests[r].clientId} :
    \/ /\ requests[r].phase = "received"
       /\ clientId \notin DOMAIN clients
       /\ routeClientToTaxPro(clientId)
       /\ requests' = [requests EXCEPT ![r].phase = "answered"]
    \/ /\ requests[r].phase = "received"
       /\ clientId \in DOMAIN clients
       /\ \E result \in {findBestTaxPro(clients[clientId], taxPros)} :
            /\ clients' = updateClient(clients, clientId,
                             [complexityScore |-> result.complexityScore])
            /\ requests' = [requests EXCEPT ![r] =
                 [clientId |-> clientId, phase |-> "selected", result |-> result]]
            /\ last' = [op |-> "findBestTaxPro", clientId |-> clientId,
                        found |-> TRUE, result |-> result]
       /\ UNCHANGED <<taxPros, sessions, checklists, appointments, reminders>>
    \/ /\ requests[r].phase = "selected"
       /\ \E result \in {requests[r].result} :
            IF result.taxPro = 0
            THEN /\ UNCHANGED <<clients, taxPros>>
                 /\ last' = [op |-> "routeClientToTaxPro", clientId |-> clientId,
                             found |-> TRUE, success |-> FALSE, result |-> result]
            ELSE /\ clients' = updateClient(clients, clientId,
                                  [assignedTaxPro |-> result.taxPro])
                 /\ taxPros' = updateTaxProLoad(taxPros, result.taxPro, 1)
                 /\ last' = [op |-> "routeClientToTaxPro", clientId |-> clientId,
                             found |-> TRUE, success |-> TRUE, result |-> result]
       /\ requests' = [requests EXCEPT ![r] =
            [clientId |-> clientId, phase |-> "answered"]]
       /\ UNCHANGED <<sessions, checklists, appointments, reminders>>

\* the handler of a received request runs: it calls routeClientToTaxPro and
\* answers with the result; neither the handler nor the call awaits anything,
\* so no other handler runs before the answer
ServeRoute(r) ==
  /\ requests[r].phase = "received"
  /\ routeClientToTaxPro(requests[r].clientId)
  /\ requests' = [requests EXCEPT ![r].phase = "answered"]

\* requests arrive at any time and wait; the waiting handlers run in any order
NextConcurrent ==
  \/ \E c \in RoutedClientIds \cup {NoId} : ReceiveRoute(c)
  \/ \E r \in DOMAIN requests : ServeRoute(r)

SpecConcurrent == InitRouting /\ [][NextConcurrent]_vars

----------------------------------------------------------------------------
(* Properties *)

RoutingOps == {"findBestTaxPro", "getTaxProRecommendations", "routeClientToTaxPro"}

\* C1: under routing calls on the seeded directory, every staff member's load
\* stays between 0 and its daily capacity
LoadWithinCapacity ==
  \A i \in DOMAIN taxPros :
     /\ 0 <= taxPros[i].currentLoad
     /\ taxPros[i].currentLoad <= taxPros[i].maxDailyAppointments

\* a route has just filled a staff member's last free slot
RouteFilledLastSlot ==
  /\ last.op = "routeClientToTaxPro"
  /\ last.success
  /\ taxPros[last.result.taxPro].currentLoad
       = taxPros[last.result.taxPro].maxDailyAppointments

\* what a routeClientToTaxPro step does to the store
RouteEffect ==
  IF last'.success
  THEN /\ last'.result.taxPro # 0
       /\ last'.result.taxPro
            = findBestTaxPro(clients[last'.clientId], taxPros).taxPro
       /\ clients'[last'.clientId].assignedTaxPro = last'.result.taxPro
       /\ taxPros'[last'.result.taxPro].currentLoad
            = taxPros[last'.result.taxPro].currentLoad + 1
       /\ [taxPros' EXCEPT ![last'.result.taxPro].currentLoad = @ - 1] = taxPros
       /\ \A d \in DOMAIN clients \ {last'.clientId} : clients'[d] = clients[d]
  ELSE /\ taxPros' = taxPros
       /\ DOMAIN clients' = DOMAIN clients
       /\ \A d \in DOMAIN clients :
            clients'[d].assignedTaxPro = clients[d].assignedTaxPro

\* C6: a successful route records the selected staff member on the client and
\* adds exactly 1 to that member's load, every other load unchanged; a failed
\* route changes no load and no client's assignment
RouteCommitsExactlyOne ==
  [][last'.op = "routeClientToTaxPro" => RouteEffect]_vars

\* a route is refused for want of a capable staff member after an earlier
\* route was committed
RouteRefusedAfterCommit ==
  /\ last.op = "routeClientToTaxPro"
  /\ last.found
  /\ ~last.success
  /\ last.result.reason = "cannot_handle_case"
  /\ \E c \in DOMAIN clients : clients[c].assignedTaxPro # 0

\* every income type, every deduction, the four flags and ten dependents
Saturated(client) ==
  /\ Range(client.incomeTypes) = Range(AllIncomeTypes)
  /\ Range(client.deductions) = Range(AllDeductionTypes)
  /\ client.hasCrypto /\ client.hasForeignAccounts
  /\ client.hasRentalProperty /\ client.hasBusinessIncome
  /\ client.dependents = 10

\* C2: the score that calculateComplexityScore returns, and the score that
\* findBestTaxPro writes onto a client record, is in 0..100 for every filing
\* status, tag list, flag setting and number of dependents; the client that
\* carries everything scores exactly 100
ScoreInRange ==
  /\ \A c \in DOMAIN clients : clients[c].complexityScore \in 0..100
  /\ (last.op = "calculate_complexity" /\ last.found) =>
        /\ last.score \in 0..100
        /\ Saturated(clients[last.clientId]) => last.score = 100
  /\ (last.op \in RoutingOps /\ last.found) =>
        /\ last.result.complexityScore \in 0..100
        /\ clients[last.clientId].complexityScore = last.result.complexityScore
        /\ Saturated(clients[last.clientId]) => last.result.complexityScore = 100

\* findBestTaxPro has written the score of the client that carries everything
SaturatedScorePersisted ==
  /\ last.op = "findBestTaxPro"
  /\ Saturated(clients[last.clientId])
  /\ clients[last.clientId].complexityScore = 100

\* score -> tier, as the ranges are documented
TierOfScore(score) ==
  IF score \in 0..20 THEN "simple"
  ELSE IF score \in 21..50 THEN "moderate"
  ELSE IF score \in 51..80 THEN "complex"
  ELSE IF score \in 81..100 THEN "expert"
  ELSE "none"

BoundaryTiers ==
  (0 :> "simple") @@ (20 :> "simple") @@ (21 :> "moderate") @@ (50 :> "moderate")
  @@ (51 :> "complex") @@ (80 :> "complex") @@ (81 :> "expert") @@ (100 :> "expert")

\* C8: getComplexityLevel maps 0..20 to simple, 21..50 to moderate, 51..80 to
\* complex and 81..100 to expert, the eight boundary scores included
LevelMatchesRanges ==
  last.op = "getComplexityLevel" =>
     /\ last.level = TierOfScore(last.score)
     /\ last.score \in DOMAIN BoundaryTiers => last.level = BoundaryTiers[last.score]

\* the first score of the expert tier has been mapped
ExpertBoundaryMapped ==
  /\ last.op = "getComplexityLevel"
  /\ last.score = 81
  /\ last.level = "expert"

\* the sum of the table weights of a tag list, an unknown tag counting 0
RECURSIVE TagSum(_, _, _)
TagSum(table, tags, n) ==
  IF n = 0 THEN 0
  ELSE TagSum(table, tags, n - 1)
       + (IF tags[n] \in DOMAIN table THEN table[tags[n]] ELSE 0)

\* the score as the specification states it, from the attributes alone
StatedScore(client) ==
  LET sum ==   (IF client.filingStatus \in DOMAIN FilingStatusWeights
                THEN FilingStatusWeights[client.filingStatus] ELSE 0)
             + TagSum(IncomeTypeWeights, client.incomeTypes, Len(client.incomeTypes))
             + TagSum(DeductionWeights, client.deductions, Len(client.deductions))
             + (IF client.hasCrypto THEN 25 ELSE 0)
             + (IF client.hasForeignAccounts THEN 30 ELSE 0)
             + (IF client.hasRentalProperty THEN 20 ELSE 0)
             + (IF client.hasBusinessIncome THEN 20 ELSE 0)
             + (IF 5 * client.dependents < 20 THEN 5 * client.dependents ELSE 20)
  IN IF sum < 100 THEN sum ELSE 100

\* single, wages and crypto income, the crypto flag, nothing else
IsExampleClient(client) ==
  /\ client.filingStatus = "single"
  /\ client.incomeTypes = <<"wages_w2", "crypto_income">>
  /\ client.deductions = <<>>
  /\ client.hasCrypto /\ ~client.hasForeignAccounts
  /\ ~client.hasRentalProperty /\ ~client.hasBusinessIncome
  /\ client.dependents = 0

\* C9: the score is min(100, filing weight + income weights + deduction
\* weights + flag weights + min(5 x dependents, 20)), an unknown tag counting
\* 0; it is a function of these attributes alone (the stored score, the
\* assignment and the directory do not enter); the example client scores 55,
\* tier complex
ScoreMatchesFormula ==
  /\ (last.op = "calculate_complexity" /\ last.found) =>
        /\ last.score = StatedScore(clients[last.clientId])
        /\ IsExampleClient(clients[last.clientId]) =>
              last.score = 55 /\ last.level = "complex"
  /\ (last.op \in RoutingOps /\ last.found) =>
        last.result.complexityScore = StatedScore(clients[last.clientId])

\* the example client has been scored after its stored score was rewritten
ExampleClientScored ==
  /\ last.op = "calculate_complexity"
  /\ last.found
  /\ IsExampleClient(clients[last.clientId])
  /\ clients[last.clientId].complexityScore = 55
  /\ last.score = 55

HasSelfEmploymentTag(client) ==
  \/ Includes(client.incomeTypes, "self_employment_1099nec")
  \/ Includes(client.incomeTypes, "freelance_1099misc")
  \/ Includes(client.incomeTypes, "gig_economy")

\* the specializations that do not depend on the business-income flag
OtherSpecsAsStated(client, specs) ==
  /\ "individual" \in specs
  /\ "investments" \in specs <=>
        \/ Includes(client.incomeTypes, "investment_income")
        \/ Includes(client.incomeTypes, "dividends")
        \/ Includes(client.incomeTypes, "capital_gains")
  /\ "real_estate" \in specs <=>
        client.hasRentalProperty \/ Includes(client.incomeTypes, "rental_income")
  /\ "crypto" \in specs <=>
        client.hasCrypto \/ Includes(client.incomeTypes, "crypto_income")
  /\ "foreign_income" \in specs <=>
        client.hasForeignAccounts \/ Includes(client.incomeTypes, "foreign_income")
  /\ specs \subseteq {"individual", "self_employment", "small_business",
                      "investments", "real_estate", "crypto", "foreign_income"}

\* C10 as stated: self_employment exactly when a self-employment, freelance
\* or gig tag is present, small_business exactly when such a tag is present
\* and the business-income flag is set
SpecsFollowTagsOnly ==
  (last.op = "findBestTaxPro" /\ last.found) =>
     LET client == clients[last.clientId]
         specs  == Range(last.result.requiredSpecs)
     IN /\ OtherSpecsAsStated(client, specs)
        /\ "self_employment" \in specs <=> HasSelfEmploymentTag(client)
        /\ "small_business" \in specs <=>
              HasSelfEmploymentTag(client) /\ client.hasBusinessIncome

\* C10: getRequiredSpecializations always holds individual; self_employment
\* exactly when the business-income flag is set or a self-employment,
\* freelance or gig tag is present; small_business exactly when the
\* business-income flag is set; the other four exactly when their flag or
\* income tag is present; no tag twice
SpecsFollowTagsAndFlags ==
  (last.op = "findBestTaxPro" /\ last.found) =>
     LET client == clients[last.clientId]
         specs  == Range(last.result.requiredSpecs)
     IN /\ OtherSpecsAsStated(client, specs)
        /\ "self_employment" \in specs <=>
              HasSelfEmploymentTag(client) \/ client.hasBusinessIncome
        /\ "small_business" \in specs <=> client.hasBusinessIncome
        /\ Len(last.result.requiredSpecs) = Cardinality(specs)

\* the business-income flag alone has required both specializations
BusinessFlagAloneRequiresBoth ==
  /\ last.op = "findBestTaxPro"
  /\ last.found
  /\ clients[last.clientId].hasBusinessIncome
  /\ ~HasSelfEmploymentTag(clients[last.clientId])
  /\ {"self_employment", "small_business"} \subseteq Range(last.result.requiredSpecs)

\* a step of one of the three routing calls that found its client
SelectionStep == last'.op \in RoutingOps /\ last'.found

\* the tier of a client's attributes
TierOf(client) == getComplexityLevel(calculateComplexityScore(client))

Capable(pro, level) == ComplexityIndex(pro.maxComplexity) >= ComplexityIndex(level)

AtFullLoad(pro) == pro.currentLoad >= pro.maxDailyAppointments

Eligible(pro) == pro.available /\ pro.currentLoad < pro.maxDailyAppointments

\* C3: the primary match is never a staff member whose maxComplexity is below
\* the client's tier, on any directory with ratings in 0..5 and loads within
\* capacity; when every member able to handle the tier is at full load the
\* result is null, whatever other members are available
NeverBelowTier ==
  [][SelectionStep =>
       LET level == TierOf(clients[last'.clientId])
           chosen == last'.result.taxPro
       IN /\ chosen # 0 => Capable(taxPros[chosen], level)
          /\ (\A i \in DOMAIN taxPros :
                 Capable(taxPros[i], level) => AtFullLoad(taxPros[i]))
             => chosen = 0]_vars

\* the only capable member is at full load, the best possible incapable one
\* (free, top rating, every specialization) is eligible, and the result is null
CapableFullIncapableFree ==
  /\ last.op = "getTaxProRecommendations"
  /\ last.found
  /\ last.result.taxPro = 0
  /\ last.result.reason = "cannot_handle_case"
  /\ \E i, j \in DOMAIN taxPros :
        /\ Capable(taxPros[i], TierOf(clients[last.clientId]))
        /\ taxPros[i].available /\ AtFullLoad(taxPros[i])
        /\ ~Capable(taxPros[j], TierOf(clients[last.clientId]))
        /\ Eligible(taxPros[j])
        /\ taxPros[j].currentLoad = 0
        /\ taxPros[j].rating = 50
        /\ taxPros[j].specializations = Specializations

\* C4: only members with available = true and currentLoad < capacity are
\* returned, as primary or as alternate; when none passes, the result is null
\* with no alternates
OnlyEligibleReturned ==
  [][SelectionStep =>
       LET eligible == {i \in DOMAIN taxPros : Eligible(taxPros[i])}
       IN /\ last'.result.taxPro # 0 => last'.result.taxPro \in eligible
          /\ Range(last'.result.alternates) \subseteq eligible
          /\ eligible = {} =>
                /\ last'.result.taxPro = 0
                /\ last'.result.alternates = <<>>
                /\ last'.result.reason = "no_staff_available"]_vars

\* a capable, unavailable member was passed over for an available one
UnavailablePassedOver ==
  /\ last.op = "getTaxProRecommendations"
  /\ last.found
  /\ last.result.taxPro # 0
  /\ \E i \in DOMAIN taxPros :
        /\ ~taxPros[i].available
        /\ ~AtFullLoad(taxPros[i])
        /\ Capable(taxPros[i], TierOf(clients[last.clientId]))
        /\ i # last.result.taxPro

\* C5: the eligible candidates are ranked by score descending, equal scores in
\* directory order; the first is the primary exactly when its score is >= 0,
\* and then the alternates are the second and third of the ranking whatever
\* their scores; otherwise the result is null with no alternates
RankingDecides ==
  [][SelectionStep =>
       LET client   == clients[last'.clientId]
           eligible == {i \in DOMAIN taxPros : Eligible(taxPros[i])}
           ranked   == last'.result.ranked
           result   == last'.result
       IN /\ Len(ranked) = Cardinality(eligible)
          /\ {ranked[k].pro : k \in 1..Len(ranked)} = eligible
          /\ \A k \in 1..Len(ranked) :
                ranked[k].score = ScoreTaxPro(taxPros[ranked[k].pro], TierOf(client),
                                              getRequiredSpecializations(client))
          /\ \A j, k \in 1..Len(ranked) :
                j < k => \/ ranked[j].score > ranked[k].score
                         \/ /\ ranked[j].score = ranked[k].score
                            /\ ranked[j].pro < ranked[k].pro
          /\ IF ranked # <<>> /\ ranked[1].score >= 0
             THEN /\ result.taxPro = ranked[1].pro
                  /\ Len(result.alternates) =
                       (IF Len(ranked) >= 3 THEN 2 ELSE Len(ranked) - 1)
                  /\ \A k \in 1..Len(result.alternates) :
                        result.alternates[k] = ranked[k + 1].pro
             ELSE /\ result.taxPro = 0
                  /\ result.alternates = <<>>]_vars

\* two candidates tie at the top and the earlier one in the directory is
\* returned, the later one as alternate
TieKeepsDirectoryOrder ==
  /\ last.op = "getTaxProRecommendations"
  /\ last.found
  /\ Len(last.result.ranked) >= 2
  /\ last.result.ranked[1].score = last.result.ranked[2].score
  /\ last.result.taxPro = last.result.ranked[1].pro
  /\ last.result.alternates = <<last.result.ranked[2].pro>>
  /\ last.result.ranked[1].pro < last.result.ranked[2].pro

\* C7: getTaxProRecommendations and findBestTaxPro change nothing in the store
\* but the complexity score of the client they are called for: no assignment,
\* no load, no session, checklist, appointment or reminder
RecommendationCommitsNothing ==
  [][last'.op \in {"getTaxProRecommendations", "findBestTaxPro"} =>
       /\ taxPros' = taxPros
       /\ sessions' = sessions
       /\ checklists' = checklists
       /\ appointments' = appointments
       /\ reminders' = reminders
       /\ DOMAIN clients' = DOMAIN clients
       /\ \A d \in DOMAIN clients :
            clients'[d] =
              IF last'.found /\ d = last'.clientId
              THEN [clients[d] EXCEPT
                      !.complexityScore = calculateComplexityScore(clients[d])]
              ELSE clients[d]]_vars

\* a recommendation has rewritten the stored score of a client whose intake
\* is under way and who has no assignment
RecommendationRefreshedScore ==
  /\ last.op = "getTaxProRecommendations"
  /\ last.found
  /\ last.result.taxPro # 0
  /\ clients[last.clientId].complexityScore > 0
  /\ clients[last.clientId].assignedTaxPro = 0
  /\ \E s \in DOMAIN sessions : sessions[s].clientId = last.clientId

\* a processIntakeResponse step on an existing session
ResponseStep == last'.op = "processIntakeResponse" /\ last'.success

\* the early-exit heuristics: "no" or "none" at dependents, "no" together
\* with "none" at special_situations
EarlyExitFires(step, answer) ==
  \/ step = "dependents" /\ ("no" \in answer \/ "none" \in answer)
  \/ step = "special_situations" /\ "no" \in answer /\ "none" \in answer

\* the number of entries of a response list recorded for a step
StepCount(responses, step) ==
  Cardinality({i \in 1..Len(responses) : responses[i] = step})

\* C13: currentStep is always one of the ten steps; a response keeps it or
\* moves it to the step that follows; for a step that has a following step it
\* moves exactly when the responses recorded for the step have reached the
\* number of its questions or the step's early exit fires
StepMovesInOrder ==
  [][/\ \A s \in DOMAIN sessions' : Includes(INTAKE_STEPS, sessions'[s].currentStep)
     /\ ResponseStep =>
          LET before == sessions[last'.sessionId]
              after  == sessions'[last'.sessionId]
              step   == before.currentStep
              index  == StepIndex(step)
          IN /\ \/ after.currentStep = step
                \/ /\ index < Len(INTAKE_STEPS)
                   /\ after.currentStep = INTAKE_STEPS[index + 1]
             /\ index < Len(INTAKE_STEPS) =>
                  (after.currentStep # step <=>
                     \/ StepCount(after.responses, step) >= QuestionCount[step]
                     \/ EarlyExitFires(step, last'.answer))]_vars

\* "No, none" as the only answer at special_situations has moved the session
\* to document_upload
NoNoneSkipsSpecialSituations ==
  /\ last.op = "processIntakeResponse"
  /\ last.success
  /\ last.answer = {"no", "none"}
  /\ sessions[last.sessionId].currentStep = "document_upload"
  /\ StepCount(sessions[last.sessionId].responses, "special_situations") = 1
  /\ sessions[last.sessionId].responses[Len(sessions[last.sessionId].responses)]
       = "special_situations"

\* C14: the call that moves a session to complete sets status completed and
\* the client's intakeCompleted flag, and from then on no response changes the
\* session's currentStep, completedSteps, responses or status
CompletedSessionIsTerminal ==
  [][ResponseStep =>
       LET before == sessions[last'.sessionId]
           after  == sessions'[last'.sessionId]
       IN /\ (before.currentStep # "complete" /\ after.currentStep = "complete")
               => /\ after.status = "completed"
                  /\ clients'[after.clientId].intakeCompleted
          /\ before.status = "completed" =>
               /\ after.currentStep = before.currentStep
               /\ after.completedSteps = before.completedSteps
               /\ after.responses = before.responses
               /\ after.status = before.status]_vars

\* C15: a response never removes a tag from incomeTypes or deductions, and
\* neither list ever holds a tag twice
TagListsOnlyGrow ==
  [][ResponseStep =>
       LET id == sessions[last'.sessionId].clientId
       IN /\ Range(clients[id].incomeTypes) \subseteq Range(clients'[id].incomeTypes)
          /\ Range(clients[id].deductions) \subseteq Range(clients'[id].deductions)
          /\ NoRepeat(clients'[id].incomeTypes)
          /\ NoRepeat(clients'[id].deductions)]_vars

\* a special_situations answer naming crypto was given by a client whose
\* income_types answer had already added the crypto tag
CryptoNamedTwice ==
  /\ last.op = "processIntakeResponse"
  /\ last.success
  /\ "crypto" \in last.answer
  /\ sessions[last.sessionId].responses[Len(sessions[last.sessionId].responses)]
       = "special_situations"
  /\ Includes(clients[sessions[last.sessionId].clientId].incomeTypes,
              "investment_income")
  /\ Includes(clients[sessions[last.sessionId].clientId].incomeTypes,
              "crypto_income")

\* the in-progress sessions of a client
OpenSessions(store, clientId) ==
  {s \in DOMAIN store : store[s].clientId = clientId
                        /\ store[s].status = "in_progress"}

\* C16: startIntakeSession for a client with an in-progress session returns
\* that session and changes no session; otherwise it adds one session at
\* personal_info without responses; no client ever has two in-progress
\* sessions
StartResumesOrCreates ==
  [][/\ \A s \in DOMAIN sessions' :
          Cardinality(OpenSessions(sessions', sessions'[s].clientId)) <= 1
     /\ last'.op = "startIntakeSession" =>
          IF OpenSessions(sessions, last'.clientId) # {}
          THEN /\ sessions' = sessions
               /\ last'.sessionId \in OpenSessions(sessions, last'.clientId)
               /\ ~last'.created
          ELSE /\ last'.created
               /\ last'.sessionId \notin DOMAIN sessions
               /\ DOMAIN sessions' = DOMAIN sessions \cup {last'.sessionId}
               /\ \A s \in DOMAIN sessions : sessions'[s] = sessions[s]
               /\ sessions'[last'.sessionId] =
                    [clientId |-> last'.clientId, currentStep |-> "personal_info",
                     completedSteps |-> <<>>, responses |-> <<>>,
                     status |-> "in_progress"]]_vars

\* a client who completed one intake and started another has resumed the
\* second, which holds answers already
SecondSessionResumed ==
  /\ last.op = "startIntakeSession"
  /\ ~last.created
  /\ sessions[last.sessionId].responses # <<>>
  /\ \E s \in DOMAIN sessions :
        /\ sessions[s].clientId = last.clientId
        /\ sessions[s].status = "completed"

\* the keywords that updateClientFromResponse looks for at a step
StepKeywords(step) ==
  CASE step = "filing_status" -> {"single", "jointly", "separately", "head", "widow"}
    [] step = "employment" -> {"self-employ", "freelance", "own business"}
    [] step = "income_types" ->
         {"w2", "w-2", "1099", "freelance", "contractor", "uber", "lyft",
          "doordash", "gig", "rental", "property", "invest", "stock", "dividend",
          "crypto", "bitcoin", "retirement", "pension", "401k", "social security"}
    [] step = "deductions" ->
         {"mortgage", "property tax", "charit", "donat", "student loan", "401k",
          "ira", "retirement", "home office", "business expense", "childcare",
          "daycare"}
    [] step = "special_situations" ->
         {"crypto", "bitcoin", "foreign", "rental", "real estate"}
    [] OTHER -> {}

\* the attributes that the keyword heuristics write
Inferred(client) ==
  <<client.filingStatus, client.incomeTypes, client.deductions, client.hasCrypto,
    client.hasForeignAccounts, client.hasRentalProperty, client.hasBusinessIncome>>

\* C17: processIntakeResponse on an existing session succeeds whatever the
\* answer; at filing_status, employment, income_types, deductions and
\* special_situations an answer without any of the step's keywords leaves the
\* filing status, the tag lists and the four flags as they were
UnrecognizedAnswerIgnored ==
  [][last'.op = "processIntakeResponse" /\ last'.sessionId \in DOMAIN sessions =>
       LET before == sessions[last'.sessionId]
           step   == before.currentStep
       IN /\ last'.success
          /\ (/\ step \in {"filing_status", "employment", "income_types",
                           "deductions", "special_situations"}
              /\ last'.answer \cap StepKeywords(step) = {})
             => Inferred(clients'[before.clientId]) = Inferred(clients[before.clientId])]_vars

\* an answer about stocks and crypto given at the deductions step was
\* accepted and set nothing
IncomeAnswerAtDeductions ==
  /\ last.op = "processIntakeResponse"
  /\ last.success
  /\ last.answer = {"stock", "crypto", "invest"}
  /\ sessions[last.sessionId].responses[Len(sessions[last.sessionId].responses)]
       = "deductions"
  /\ clients[sessions[last.sessionId].clientId].deductions = <<>>
  /\ ~clients[sessions[last.sessionId].clientId].hasCrypto

\* C18: once both questions of the dependents step have been answered (the
\* client did not answer the first with "no"), the client record holds at
\* least one dependent
DependentsCollected ==
  \A s \in DOMAIN sessions :
     StepCount(sessions[s].responses, "dependents") = 2
       => clients[sessions[s].clientId].dependents > 0

\* the names of the documents of a checklist
NamesOf(checklist) == {checklist.documents[i].name : i \in 1..Len(checklist.documents)}

\* the ids of the documents of a checklist
IdSetOf(checklist) == {checklist.documents[i].id : i \in 1..Len(checklist.documents)}

\* a generateDocumentChecklist step for a stored client
GenerationStep == last'.op = "generateDocumentChecklist" /\ last'.found

\* C19: every generated checklist holds the three identity documents, and a
\* generation that directly follows a generation for the same client gives the
\* same document names under new ids
GenerationRepeatable ==
  [][GenerationStep =>
       /\ {"Government-issued Photo ID", "Social Security Card",
           "Prior Year Tax Return"} \subseteq NamesOf(checklists'[last'.clientId])
       /\ (last.op = "generateDocumentChecklist" /\ last.found
           /\ last.clientId = last'.clientId)
          => /\ NamesOf(checklists'[last'.clientId])
                  = NamesOf(checklists[last'.clientId])
             /\ IdSetOf(checklists'[last'.clientId])
                  \cap IdSetOf(checklists[last'.clientId]) = {}]_vars

\* a checklist was generated a second time for a client whose intake session
\* has received no answer yet
GeneratedTwiceBeforeAnswers ==
  /\ last.op = "generateDocumentChecklist"
  /\ last.found
  /\ last.generation = 2
  /\ checklists[last.clientId].generatedAt = 2
  /\ \E s \in DOMAIN sessions :
        sessions[s].clientId = last.clientId /\ sessions[s].responses = <<>>

\* the pending list of a client is the ids of the required, uncollected
\* documents of the stored checklist, and empty without a checklist
PendingAsStated(store, lists, clientId) ==
  IF clientId \in DOMAIN lists
  THEN /\ Range(store[clientId].documentsPending)
            = {lists[clientId].documents[i].id :
                 i \in {j \in 1..Len(lists[clientId].documents) :
                          /\ lists[clientId].documents[j].required
                          /\ ~lists[clientId].documents[j].collected}}
       /\ NoRepeat(store[clientId].documentsPending)
  ELSE store[clientId].documentsPending = <<>>

\* C20: after every call documentsPending is the ids of the required and
\* uncollected items of the client's stored checklist; a generation stores a
\* checklist newer than every checklist stored before, made of ids of that
\* generation only, and no other call replaces a stored checklist
PendingMatchesChecklist ==
  [][/\ \A c \in DOMAIN clients' : PendingAsStated(clients', checklists', c)
     /\ IF GenerationStep
        THEN /\ checklists'[last'.clientId].generatedAt = last'.generation
             /\ \A c \in DOMAIN checklists :
                   checklists[c].generatedAt < last'.generation
             /\ \A id \in IdSetOf(checklists'[last'.clientId]) :
                   id[1] = last'.generation
             /\ \A c \in DOMAIN checklists \ {last'.clientId} :
                   checklists'[c] = checklists[c]
        ELSE /\ DOMAIN checklists' = DOMAIN checklists
             /\ \A c \in DOMAIN checklists :
                   /\ checklists'[c].generatedAt = checklists[c].generatedAt
                   /\ IdsOf(checklists'[c].documents) = IdsOf(checklists[c].documents)]_vars

\* a required document of a regenerated checklist was marked collected and
\* other documents are still pending
MarkedAfterRegeneration ==
  /\ last.op = "markDocumentCollected"
  /\ last.success
  /\ checklists[last.clientId].generatedAt >= 2
  /\ last.documentId[1] = checklists[last.clientId].generatedAt
  /\ clients[last.clientId].documentsPending # <<>>
  /\ ~Includes(clients[last.clientId].documentsPending, last.documentId)
  /\ \E i \in 1..Len(checklists[last.clientId].documents) :
        /\ checklists[last.clientId].documents[i].id = last.documentId
        /\ checklists[last.clientId].documents[i].required

\* a step that creates an appointment
AppointmentStep ==
  last'.op \in {"createAppointment", "create_appointment"} /\ last'.found

\* the two duration tables, in minutes
StatedDuration(tier, completed) ==
  IF completed
  THEN [simple |-> 15, moderate |-> 20, complex |-> 30, expert |-> 45][tier]
  ELSE [simple |-> 30, moderate |-> 45, complex |-> 60, expert |-> 90][tier]

\* C11: createAppointment stores one new appointment whose duration is the
\* table entry for the tier of the client's stored score and the client's
\* intake-completion flag at the call, whose intakeScore is 100 for a completed
\* intake and 0 otherwise, and whose estimatedComplexity is that tier
DurationFromTierAndIntake ==
  [][AppointmentStep =>
       LET client == clients[last'.clientId]
           tier   == TierOfScore(client.complexityScore)
       IN /\ Len(appointments') = Len(appointments) + 1
          /\ last'.appointmentId = Len(appointments')
          /\ appointments'[last'.appointmentId].clientId = last'.clientId
          /\ appointments'[last'.appointmentId].duration
               = StatedDuration(tier, client.intakeCompleted)
          /\ appointments'[last'.appointmentId].intakeScore
               = (IF client.intakeCompleted THEN 100 ELSE 0)
          /\ appointments'[last'.appointmentId].estimatedComplexity = tier]_vars

\* an appointment of 45 minutes was created for an expert-tier client who had
\* completed intake
ExpertAfterIntakeGetsShortSlot ==
  /\ last.op \in {"createAppointment", "create_appointment"}
  /\ last.found
  /\ clients[last.clientId].intakeCompleted
  /\ clients[last.clientId].complexityScore > 80
  /\ appointments[last.appointmentId].duration = 45
  /\ appointments[last.appointmentId].intakeScore = 100
  /\ appointments[last.appointmentId].estimatedComplexity = "expert"

\* C12: no call removes a stored appointment or changes its duration,
\* intakeScore or estimatedComplexity
SnapshotFrozen ==
  [][\A a \in DOMAIN appointments :
        /\ a \in DOMAIN appointments'
        /\ appointments'[a].duration = appointments[a].duration
        /\ appointments'[a].intakeScore = appointments[a].intakeScore
        /\ appointments'[a].estimatedComplexity = appointments[a].estimatedComplexity]_vars

\* the client's first appointment still shows the simple tier and the
\* unfinished intake of the day it was made, after the client completed
\* intake, was scored expert, was routed, got a checklist and a sent reminder
\* and a second appointment
FirstAppointmentKeptItsSnapshot ==
  /\ Len(appointments) = 2
  /\ appointments[1].clientId = 1
  /\ appointments[1].duration = 30
  /\ appointments[1].intakeScore = 0
  /\ appointments[1].estimatedComplexity = "simple"
  /\ appointments[2].clientId = 1
  /\ appointments[2].duration = 45
  /\ appointments[2].intakeScore = 100
  /\ appointments[2].estimatedComplexity = "expert"
  /\ clients[1].intakeCompleted
  /\ clients[1].assignedTaxPro # 0
  /\ 1 \in DOMAIN checklists
  /\ \E r \in DOMAIN reminders : reminders[r].sent

\* C21: markDocumentCollected fails with "Checklist not found" when the client
\* has no checklist and with "Document not found in checklist" when the stored
\* checklist has no item of that id, and a failed call changes neither the
\* checklists nor any client record
FailedMarkChangesNothing ==
  [][last'.op = "markDocumentCollected" =>
       /\ last'.clientId \notin DOMAIN checklists
            => ~last'.success /\ last'.message = "Checklist not found"
       /\ (/\ last'.clientId \in DOMAIN checklists
           /\ last'.documentId \notin IdSetOf(checklists[last'.clientId]))
            => ~last'.success /\ last'.message = "Document not found in checklist"
       /\ ~last'.success => checklists' = checklists /\ clients' = clients]_vars

\* the id of a document of an earlier generation was refused for a client
\* who has a collected document and pending ones
StaleIdRefused ==
  /\ last.op = "markDocumentCollected"
  /\ ~last.success
  /\ last.message = "Document not found in checklist"
  /\ last.documentId[1] < checklists[last.clientId].generatedAt
  /\ clients[last.clientId].documentsCollected # <<>>
  /\ clients[last.clientId].documentsPending # <<>>

\* C26: when a document has been marked collected and the checklist is
\* generated again right after, the item of the new checklist with the same
\* name is collected and its id is not pending
CollectionSurvivesRegeneration ==
  [][(/\ GenerationStep
      /\ last.op = "markDocumentCollected"
      /\ last.success
      /\ last.clientId = last'.clientId) =>
       \A i \in 1..Len(checklists[last.clientId].documents) :
          checklists[last.clientId].documents[i].id = last.documentId =>
            \A j \in 1..Len(checklists'[last.clientId].documents) :
               checklists'[last.clientId].documents[j].name
                   = checklists[last.clientId].documents[i].name
               => /\ checklists'[last.clientId].documents[j].collected
                  /\ ~Includes(clients'[last.clientId].documentsPending,
                               checklists'[last.clientId].documents[j].id)]_vars

\* C27: in every state each session's completedSteps is the list of the steps
\* before currentStep, in order, and the reported percentComplete is at most
\* 100
CompletedStepsPrecedeCurrent ==
  \A s \in DOMAIN sessions :
     /\ sessions[s].completedSteps
          = SubSeq(INTAKE_STEPS, 1, StepIndex(sessions[s].currentStep) - 1)
     /\ percentComplete(sessions[s]) <= 100

\* C30: a session is completed by its 19th response at the earliest and by
\* its 23rd at the latest, whatever the answers
IntakeEndsWithin ==
  [][/\ \A s \in DOMAIN sessions' :
          /\ sessions'[s].status = "completed" => Len(sessions'[s].responses) >= 19
          /\ Len(sessions'[s].responses) >= 23 => sessions'[s].status = "completed"
     /\ (ResponseStep /\ last'.intakeCompleted)
          => /\ sessions[last'.sessionId].status = "in_progress"
             /\ Len(sessions'[last'.sessionId].responses) \in 19..23]_vars

\* an intake was completed by its 23rd response
CompletedByLongestScript ==
  /\ last.op = "processIntakeResponse"
  /\ last.success
  /\ last.intakeCompleted
  /\ sessions[last.sessionId].status = "completed"
  /\ Len(sessions[last.sessionId].responses) = 23

\* C28: the load added to the seeded directory equals the number of clients
\* that have an assigned staff member
LoadCountsAssignedClients ==
  Assigned = Cardinality({c \in DOMAIN clients : clients[c].assignedTaxPro # 0})

\* C22: no call removes a reminder or changes a sent one; sendReminder fails
\* and changes nothing for an unknown id, for a reminder already sent
\* ("Reminder already sent") and for a reminder whose client is not stored,
\* and otherwise marks that one reminder sent
ReminderSentOnce ==
  [][/\ \A r \in DOMAIN reminders :
          /\ r \in DOMAIN reminders'
          /\ reminders[r].sent => reminders'[r] = reminders[r]
     /\ last'.op = "sendReminder" =>
          IF last'.reminderId \notin DOMAIN reminders
          THEN ~last'.success /\ reminders' = reminders
          ELSE IF reminders[last'.reminderId].sent
          THEN /\ ~last'.success
               /\ last'.message = "Reminder already sent"
               /\ reminders' = reminders
          ELSE IF reminders[last'.reminderId].clientId \notin DOMAIN clients
          THEN ~last'.success /\ reminders' = reminders
          ELSE /\ last'.success
               /\ reminders' = [reminders EXCEPT ![last'.reminderId].sent = TRUE]]_vars

\* a second send of a reminder was refused
SecondSendRefused ==
  /\ last.op = "sendReminder"
  /\ ~last.success
  /\ last.message = "Reminder already sent"
  /\ reminders[last.reminderId].sent

\* the document reminders that a create_appointment step stores
BatchRemindersOf(before, after) ==
  {r \in DOMAIN after \ DOMAIN before : after[r].type = "document_reminder"}

\* C23: the batch document reminder that comes with an appointment is
\* scheduled 48 hours before the appointment and lists the client's pending
\* documents; there is exactly one when documents are pending and none
\* otherwise
BatchReminderBeforeAppointment ==
  [][(last'.op = "create_appointment" /\ last'.found) =>
       LET pending == getPendingDocuments(last'.clientId)
           batch   == BatchRemindersOf(reminders, reminders')
       IN /\ Cardinality(batch) = (IF pending = <<>> THEN 0 ELSE 1)
          /\ \A r \in batch :
                /\ reminders'[r].appointmentId = last'.appointmentId
                /\ reminders'[r].documentIds = IdsOf(pending)
                /\ reminders'[r].scheduledFor
                     = appointments'[last'.appointmentId].scheduledAt - 48]_vars

\* a call that was refused because an id it was given resolves to nothing
RefusedForUnknownId ==
  \/ /\ last'.op \in {"routeClientToTaxPro", "generateDocumentChecklist",
                      "createAppointment", "create_appointment",
                      "getAppointmentEstimate", "getTaxProRecommendations"}
     /\ ~last'.found
  \/ /\ last'.op = "createAppointment"
     /\ last'.found
     /\ appointments'[last'.appointmentId].taxProId \notin DOMAIN taxPros

\* C24: a call given a client id or a staff id that does not resolve stores
\* nothing, and every stored appointment names a stored client and a member
\* of the directory
UnknownIdStoresNothing ==
  [][/\ RefusedForUnknownId =>
          UNCHANGED <<clients, taxPros, sessions, checklists, appointments,
                      reminders>>
     /\ \A a \in DOMAIN appointments' :
          /\ appointments'[a].clientId \in DOMAIN clients'
          /\ appointments'[a].taxProId \in DOMAIN taxPros']_vars

\* a call that reads the client's tier
TierStep ==
  /\ last'.op \in {"createAppointment", "create_appointment",
                   "getAppointmentEstimate"}
  /\ last'.found

\* C29: createAppointment and getAppointmentEstimate use the tier of the score
\* computed from the client's attributes at the call: estimatedComplexity (or
\* complexityLevel) is getComplexityLevel(calculateComplexityScore(client))
\* and the duration is the table entry of that tier
TierOfCurrentAttributes ==
  [][TierStep =>
       LET client == clients[last'.clientId]
           tier   == getComplexityLevel(calculateComplexityScore(client))
           time   == StatedDuration(tier, client.intakeCompleted)
       IN IF last'.op = "getAppointmentEstimate"
          THEN /\ last'.complexityLevel = tier
               /\ last'.estimatedDuration = time
          ELSE /\ appointments'[last'.appointmentId].estimatedComplexity = tier
               /\ appointments'[last'.appointmentId].duration = time]_vars

\* the requests that a step answers
AnsweredBy(before, after) ==
  {r \in DOMAIN before : before[r].phase = "received"
                         /\ after[r].phase = "answered"}

\* C25: under every interleaving of route requests, a request goes from
\* received to answered in one step, the store changes only in such a step,
\* a successful answer names a member that had a free slot when the step
\* began and whose load the step raises by one, and no load exceeds the
\* member's daily capacity
RouteServedInOneStep ==
  [][/\ \A r \in DOMAIN requests :
          requests'[r] # requests[r] =>
            /\ AnsweredBy(requests, requests') = {r}
            /\ last'.op = "routeClientToTaxPro"
            /\ last'.clientId = requests[r].clientId
            /\ last'.success =>
                 /\ taxPros[last'.result.taxPro].currentLoad
                      < taxPros[last'.result.taxPro].maxDailyAppointments
                 /\ taxPros'[last'.result.taxPro].currentLoad
                      = taxPros[last'.result.taxPro].currentLoad + 1
                 /\ clients'[last'.clientId].assignedTaxPro = last'.result.taxPro
     /\ <<clients, taxPros>>' # <<clients, taxPros>> =>
          AnsweredBy(requests, requests') # {}
     /\ \A p \in DOMAIN taxPros' :
          taxPros'[p].currentLoad <= taxPros'[p].maxDailyAppointments]_vars

\* two requests for two clients who both suit best a member with one free
\* slot have been answered: one client has the member, whose load is at
\* capacity, and the other has not
LastSlotTakenOnce ==
  /\ Len(requests) >= 2
  /\ requests[1].phase = "answered"
  /\ requests[2].phase = "answered"
  /\ requests[1].clientId \in DOMAIN clients
  /\ requests[2].clientId \in DOMAIN clients
  /\ requests[1].clientId # requests[2].clientId
  /\ \E p \in DOMAIN taxPros :
       /\ SeedTaxPros[p].currentLoad + 1 = taxPros[p].maxDailyAppointments
       /\ taxPros[p].currentLoad = taxPros[p].maxDailyAppointments
       /\ \A r \in 1..2 :
            findBestTaxPro(clients[requests[r].clientId], SeedTaxPros).taxPro = p
       /\ clients[requests[1].clientId].assignedTaxPro = p
       /\ clients[requests[2].clientId].assignedTaxPro # p
====
